---------------------------- MODULE Spec2Model ----------------------------
(***************************************************************************)
(* Fraud-Detection-System: the risk-scoring engine (fraud_detector.py,     *)
(* ml_model.py), the dual-mode transaction pipeline (main.py,              *)
(* kafka_consumer.py, kafka_producer.py) and the alert fan-out registry    *)
(* (websocket_manager.py).                                                 *)
(*                                                                         *)
(* Numbers.  Scores are fixed-point, in units of 1/10000: Dec(h) is the    *)
(* decimal h/100, so 0.4 is Dec(40) and 0.05 is Dec(5).  Amounts are in    *)
(* cents, so the thresholds 10000 and 5000 are compared as N * 100.  The   *)
(* Python floats of the source are not modelled bit by bit: over the rule  *)
(* increments of _apply_rules and probabilities given in hundredths, the   *)
(* float results fall on the same side of every threshold (0.3, 0.7) as    *)
(* the exact decimals used here.                                           *)
(*                                                                         *)
(* Strings that the code inspects character by character (merchant_name)   *)
(* are sequences of one-character strings.                                 *)
(***************************************************************************)
EXTENDS Integers, Sequences, FiniteSets, TLC

Dec(h) == h * 100

Min(a, b) == IF a <= b THEN a ELSE b

Max(a, b) == IF a >= b THEN a ELSE b

(***************************************************************************)
(* Bounds of the model.                                                    *)
(***************************************************************************)
\* number of subscriber connections (WebSocket objects)
MaxSockets == 2
\* number of send_alert calls in the specification of the registry alone
MaxBroadcasts == 1
\* number of inputs to the pipeline: HTTP requests to POST /api/v1/transactions
\* and messages written to the inbound topic by other producers
MaxRequests == 1
\* number of re-deliveries of an inbound message by the transport
MaxRedeliver == 1
\* number of coroutines that call the methods of the producer and consumer
\* services concurrently, and number of calls they make altogether
MaxCallers == 2
MaxCalls == 3
\* number of status queries: requests to GET /api/v1/streaming/status
MaxQueries == 1

(***************************************************************************)
(* Input domains.                                                          *)
(***************************************************************************)
\* amounts in cents: 45.99, 100, 5000, 5000.01, 6000, 9500, 10000, 10000.01, 11000
Amounts == {4599, 10000, 500000, 500001, 600000, 950000, 1000000, 1000001, 1100000}

\* ISO country codes, as strings of characters
US == <<"U", "S">>

XX == <<"X", "X">>

YY == <<"Y", "Y">>

ZZ == <<"Z", "Z">>

Countries == {US, XX, ZZ}

\* "Coffee Shop" abbreviated, "TEST atm", "a fraud b" abbreviated
MerchantNames ==
    { <<"S", "h", "o", "p">>,
      <<"T", "E", "S", "T", " ", "a", "t", "m">>,
      <<"x", "F", "r", "a", "u", "d">> }

PaymentMethods == {"credit_card", "prepaid_card"}

\* an optional string: None, the empty string, or a value
OptionalIds == {"None", "", "id-001"}

\* outputs of the classifier's predict_proba, in units of 1/10000
MLProbs == {0, Dec(25), Dec(50), Dec(51), Dec(70), Dec(71), Dec(100)}

\* what the estimator meets when it is asked: no model file was loaded, the
\* prediction raises, or the classifier answers with a probability
Classifier ==
    {[kind |-> "NoModel", p |-> 0], [kind |-> "Error", p |-> 0]}
       \cup [kind : {"proba"}, p : MLProbs]

AllTransactions ==
    [ amount : Amounts,
      merchant_name : MerchantNames,
      merchant_country : Countries,
      transaction_country : Countries,
      payment_method : PaymentMethods,
      device_id : OptionalIds,
      ip_address : OptionalIds ]

(***************************************************************************)
(* fraud_detector.py: the rule evaluator and the scoring engine.           *)
(***************************************************************************)
HIGH_RISK_AMOUNT_lower == 10000 - 1

HIGH_RISK_AMOUNT == 10000

MEDIUM_RISK_AMOUNT_higher == 5000 + 1000

MEDIUM_RISK_AMOUNT == 5000

HIGH_RISK_COUNTRIES == {XX, YY}

SUSPICIOUS_MERCHANTS ==
    << <<"t", "e", "s", "t">>,
       <<"s", "u", "s", "p", "i", "c", "i", "o", "u", "s">>,
       <<"f", "r", "a", "u", "d">> >>

\* str.lower() on the letters that occur in the model's names
LowerChar(c) ==
    CASE c = "A" -> "a" [] c = "E" -> "e" [] c = "F" -> "f" [] c = "S" -> "s"
      [] c = "T" -> "t" [] OTHER -> c

lower(s) == [i \in 1..Len(s) |-> LowerChar(s[i])]

\* Python's `sub in s` for strings
Contains(s, sub) ==
    \E i \in 0..(Len(s) - Len(sub)) :
       \A j \in 1..Len(sub) : s[i + j] = sub[j]

\* Python's truth value of an Optional[str]: None and "" are false
Truthy(v) == v \notin {"None", ""}

\* Rule 1 .. Rule 6 of _apply_rules, each as (increment, reason) in code order
RuleHits(t) ==
    LET merchant_lower == lower(t.merchant_name) IN
    (IF t.amount > HIGH_RISK_AMOUNT * 100
        THEN << <<Dec(40), "High transaction amount">> >>
        ELSE IF t.amount > MEDIUM_RISK_AMOUNT * 100
                THEN << <<Dec(20), "Medium-high transaction amount">> >>
                ELSE << >>)
    \o (IF t.merchant_country \in HIGH_RISK_COUNTRIES
           THEN << <<Dec(30), "High-risk merchant country">> >> ELSE << >>)
    \o (IF t.transaction_country \in HIGH_RISK_COUNTRIES
           THEN << <<Dec(20), "High-risk transaction country">> >> ELSE << >>)
    \o (IF t.merchant_country # t.transaction_country
           THEN << <<Dec(10), "Cross-border transaction">> >> ELSE << >>)
    \o (IF \E k \in 1..Len(SUSPICIOUS_MERCHANTS) :
              Contains(merchant_lower, SUSPICIOUS_MERCHANTS[k])
           THEN << <<Dec(30), "Suspicious merchant name">> >> ELSE << >>)
    \o (IF t.amount > 5000 * 100 /\ t.payment_method = "prepaid_card"
           THEN << <<Dec(20), "Large amount on prepaid card">> >> ELSE << >>)
    \o (IF ~Truthy(t.device_id)
           THEN << <<Dec(5), "Missing device information">> >> ELSE << >>)
    \o (IF ~Truthy(t.ip_address)
           THEN << <<Dec(5), "Missing IP address">> >> ELSE << >>)

RECURSIVE SumHits(_)
SumHits(hits) ==
    IF hits = << >> THEN 0 ELSE hits[1][1] + SumHits(Tail(hits))

apply_rules_uncapped(t) ==
    LET hits == RuleHits(t) IN
    [ risk_score |-> SumHits(hits),
      reasons |-> [i \in 1..Len(hits) |-> hits[i][2]] ]

\* FraudDetector._apply_rules: (risk_score, reasons)
apply_rules(t) ==
    LET hits == RuleHits(t) IN
    [ risk_score |-> Min(SumHits(hits), Dec(100)),
      reasons |-> [i \in 1..Len(hits) |-> hits[i][2]] ]

(***************************************************************************)
(* ml_model.py: the probability estimator.  clf is what the estimator      *)
(* meets: "NoModel" (self.model is None), "Error" (the prediction raises)  *)
(* or "proba" with the probability p that predict_proba answers.           *)
(***************************************************************************)
ML_HIGH_RISK_COUNTRIES == {XX, YY, ZZ}

\* payment_risk lookup of extract_features, in units of 1/10000
PaymentRisk(method) ==
    CASE method = "credit_card" -> Dec(20)
      [] method = "debit_card" -> Dec(30)
      [] method = "prepaid_card" -> Dec(80)
      [] method = "bank_transfer" -> Dec(10)
      [] method = "cash" -> Dec(50)
      [] OTHER -> Dec(50)

\* the risk_factors explanations, in the insertion order of the dict
RiskFactors(t) ==
    (IF t.amount > 5000 * 100 THEN <<"ML: Transaction amount is high">> ELSE << >>)
    \o (IF t.merchant_country # t.transaction_country
           THEN <<"ML: Cross-border transaction detected">> ELSE << >>)
    \o (IF t.merchant_country \in ML_HIGH_RISK_COUNTRIES
              \/ t.transaction_country \in ML_HIGH_RISK_COUNTRIES
           THEN <<"ML: High-risk country involved">> ELSE << >>)
    \o (IF PaymentRisk(t.payment_method) > Dec(50)
           THEN <<"ML: Higher risk payment method">> ELSE << >>)

predict_fraud_probability_with_factors(clf, t) ==
    [ probability |-> IF clf.kind \in {"NoModel", "Error"} THEN Dec(50) ELSE clf.p,
      has_risk_factors |-> TRUE, risk_factors |-> RiskFactors(t),
      model_confidence |-> "unknown", status |-> "none" ]

predict_fraud_probability_zero(clf, t) ==
    IF clf.kind \in {"NoModel", "Error"}
    THEN [ probability |-> 0, has_risk_factors |-> FALSE,
           risk_factors |-> << >>, model_confidence |-> "unknown",
           status |-> IF clf.kind = "NoModel"
                      THEN "No ML model available, using rules only"
                      ELSE "ML prediction failed" ]
    ELSE [ probability |-> clf.p, has_risk_factors |-> TRUE,
           risk_factors |-> RiskFactors(t),
           model_confidence |->
              IF (IF clf.p >= Dec(50) THEN clf.p - Dec(50) ELSE Dec(50) - clf.p) > Dec(30)
              THEN "high" ELSE "medium",
           status |-> "none" ]

\* FraudMLModel.predict_fraud_probability: (probability, explanation)
predict_fraud_probability(clf, t) ==
    IF clf.kind \in {"NoModel", "Error"}
    THEN [ probability |-> Dec(50), has_risk_factors |-> FALSE,
           risk_factors |-> << >>, model_confidence |-> "unknown",
           status |-> IF clf.kind = "NoModel"
                      THEN "No ML model available, using rules only"
                      ELSE "ML prediction failed" ]
    ELSE [ probability |-> clf.p, has_risk_factors |-> TRUE,
           risk_factors |-> RiskFactors(t),
           model_confidence |->
              IF (IF clf.p >= Dec(50) THEN clf.p - Dec(50) ELSE Dec(50) - clf.p) > Dec(30)
              THEN "high" ELSE "medium",
           status |-> "none" ]

rule_weight_full == 4 + 6

rule_weight == 4

ml_weight_none == 6 - 6

ml_weight == 6

analyze_transaction_ml_first(clf, t) ==
    LET rules == apply_rules(t)
        ml == predict_fraud_probability(clf, t)
        combined == (rules.risk_score * rule_weight + ml.probability * ml_weight) \div 10
        narrative ==
            IF ml.probability > Dec(70)
            THEN <<"ML model detected high fraud probability">>
            ELSE IF ml.probability > Dec(50)
                 THEN <<"ML model detected medium fraud probability">>
                 ELSE << >>
    IN [ combined_score |-> Min(Max(combined, 0), Dec(100)),
         reasons |-> narrative \o rules.reasons
                       \o (IF ml.has_risk_factors THEN ml.risk_factors ELSE << >>),
         ml_score |-> ml.probability,
         rule_score |-> rules.risk_score,
         ml_confidence |-> ml.model_confidence ]

\* FraudDetector.analyze_transaction: (combined_score, reasons, ml_info)
analyze_transaction(clf, t) ==
    LET rules == apply_rules(t)
        ml == predict_fraud_probability(clf, t)
        combined == (rules.risk_score * rule_weight + ml.probability * ml_weight) \div 10
        narrative ==
            IF ml.probability > Dec(70)
            THEN <<"ML model detected high fraud probability">>
            ELSE IF ml.probability > Dec(50)
                 THEN <<"ML model detected medium fraud probability">>
                 ELSE << >>
    IN [ combined_score |-> Min(Max(combined, 0), Dec(100)),
         reasons |-> rules.reasons \o narrative
                       \o (IF ml.has_risk_factors THEN ml.risk_factors ELSE << >>),
         ml_score |-> ml.probability,
         rule_score |-> rules.risk_score,
         ml_confidence |-> ml.model_confidence ]

get_risk_level_strict(risk_score) ==
    IF risk_score > Dec(70) THEN "high"
    ELSE IF risk_score > Dec(30) THEN "medium"
    ELSE "low"

\* FraudDetector.get_risk_level
get_risk_level(risk_score) ==
    IF risk_score >= Dec(70) THEN "high"
    ELSE IF risk_score >= Dec(30) THEN "medium"
    ELSE "low"

is_fraud_strict(risk_score) == risk_score > Dec(70)

\* FraudDetector.is_fraud
is_fraud(risk_score) == risk_score >= Dec(70)

Abs(x) == IF x < 0 THEN -x ELSE x

\* POST /api/v1/transactions/analyze: requires_manual_review of the answer
requires_manual_review(risk_level, ml_score, rule_score) ==
    risk_level = "medium" \/ Abs(ml_score - rule_score) > Dec(40)

\* create_transaction and _process_single_message: verification_required of
\* the Transaction row
verification_required(risk_level) == risk_level \in {"medium", "high"}


(***************************************************************************)
(* State.                                                                  *)
(***************************************************************************)
VARIABLES
    \* ---- websocket_manager.py
    active_connections,    \* WebSocketManager.active_connections (a list)
    connection_metadata,   \* WebSocketManager.connection_metadata (a dict)
    ws_pc,                 \* position of each websocket_endpoint coroutine
    received,              \* per socket: the server messages its client got
    bcast,                 \* per alert id: the send_alert coroutine for it
    \* ---- scoring endpoint (the pure functions applied to one input)
    request_in,            \* the transaction and classifier outcome drawn
    analysis               \* the result of scoring it

registry_vars == <<active_connections, connection_metadata, ws_pc, received, bcast>>

score_vars == <<request_in, analysis>>

VARIABLES
    ml_model,           \* ml_model.model: "None" or "loaded"
    predict_proba,      \* the loaded estimator: fraud probability per feature vector
    lifecycle,          \* the service: "init", "up", then the steps of shutdown_event
    producer,           \* kafka_producer.producer: "None", "created" (start() pending), "started"
    consumer,           \* kafka_consumer.consumer: "None", "created", "started", "stopped"
    running,            \* kafka_consumer.running
    processed_count,    \* kafka_consumer.processed_count
    error_count,        \* kafka_consumer.error_count
    consumer_pc,        \* position of the process_messages coroutine
    consumer_event,     \* what the last step of process_messages did (bookkeeping)
    cur,                \* locals of the _process_single_message call in flight
    transaction_topic,  \* log of the inbound topic
    offset,             \* number of deliveries the consumer has taken from it
    redelivered,        \* number of re-deliveries so far
    foreign,            \* number of messages written by other producers so far
    processed_topic,    \* log of the processed-results topic
    alert_topic,        \* log of the alert topic
    db,                 \* the transactions table, in insertion order
    req,                \* per input of the pipeline: its position and its response
    uuid_counter,       \* number of uuid4() values drawn
    lock,               \* kafka_producer._lock: the caller holding it (0: free), the waiters
    call,               \* per caller: the service method it is in and its position
    made,               \* the handles constructed so far and the calls made (bookkeeping)
    streaming_status    \* the last answer of GET /api/v1/streaming/status, and how many

\* the state of the callers of the service methods
svc_vars == <<lock, call, made>>

consumer_vars == <<running, processed_count, error_count, consumer_pc, consumer_event, cur>>

transport_vars == <<transaction_topic, offset, redelivered, foreign, processed_topic, alert_topic>>

pipeline_vars ==
    <<ml_model, predict_proba, svc_vars, streaming_status, lifecycle, producer, consumer,
      consumer_vars, transport_vars, db, req, uuid_counter>>

vars == <<registry_vars, score_vars, pipeline_vars>>

Sockets == 1..MaxSockets

\* every alert is about one persisted record; its id names the send_alert call
MaxAlerts == MaxRequests + MaxRedeliver

AlertIds == 1..MaxAlerts

None == [kind |-> "None"]

\* a send_alert coroutine: its position, the index held by the list iterator of
\* its for loop, the connection it is sending to, its local list disconnected;
\* snapshot (the connection list at the call) and mutated are bookkeeping
IdleTask ==
    [pc |-> "none", idx |-> 0, cur |-> 0, disconnected |-> << >>,
     snapshot |-> << >>, mutated |-> FALSE]

\* send_alert has returned: its locals are gone
DoneTask == [IdleTask EXCEPT !.pc = "done"]

(***************************************************************************)
(* websocket_manager.py                                                    *)
(***************************************************************************)
\* list.remove(x): drops the first occurrence
RECURSIVE ListRemove(_, _)
ListRemove(list, x) ==
    IF list = << >> THEN << >>
    ELSE IF Head(list) = x THEN Tail(list)
    ELSE <<Head(list)>> \o ListRemove(Tail(list), x)

InList(list, x) == \E i \in 1..Len(list) : list[i] = x

DictPop_keeps(d, k) == d

\* dict.pop(key, default)
DictPop(d, k) == [x \in (DOMAIN d) \ {k} |-> d[x]]

\* d[key] = value
DictSet(d, k, v) == [x \in (DOMAIN d) \cup {k} |-> IF x = k THEN v ELSE d[x]]

\* WebSocketManager.disconnect, on the pair (active_connections, connection_metadata)
disconnect(reg, w) ==
    [ conns |-> IF InList(reg.conns, w) THEN ListRemove(reg.conns, w) ELSE reg.conns,
      meta |-> DictPop(reg.meta, w) ]

CleanUp_first_only(reg, disconnected) ==
    IF disconnected = << >> THEN reg ELSE disconnect(reg, Head(disconnected))

\* the clean-up loop of send_alert: disconnect every connection that raised
RECURSIVE CleanUp(_, _)
CleanUp(reg, disconnected) ==
    IF disconnected = << >> THEN reg
    ELSE CleanUp(disconnect(reg, Head(disconnected)), Tail(disconnected))

\* a registry operation of another coroutine ran while these broadcasts were
\* suspended (bookkeeping for the statements about an undisturbed broadcast)
MarkMutated(b) ==
    [a \in AlertIds |->
        IF b[a].pc = "await_send" THEN [b[a] EXCEPT !.mutated = TRUE] ELSE b[a]]

\* websocket_endpoint calls connect, which awaits websocket.accept()
WsConnectCall(w) ==
    /\ lifecycle = "up"
    /\ ws_pc[w] = "new"
    /\ \A v \in Sockets : v < w => ws_pc[v] # "new"
    /\ ws_pc' = [ws_pc EXCEPT ![w] = "accepting"]
    /\ UNCHANGED <<active_connections, connection_metadata, received, bcast>>
    /\ UNCHANGED <<score_vars, pipeline_vars>>

\* accept() returned: register the connection, then await the welcome message
WsAccepted(w) ==
    /\ ws_pc[w] = "accepting"
    /\ active_connections' = Append(active_connections, w)
    /\ connection_metadata' = DictSet(connection_metadata, w, [alerts_received |-> 0])
    /\ ws_pc' = [ws_pc EXCEPT ![w] = "welcoming"]
    /\ bcast' = MarkMutated(bcast)
    /\ UNCHANGED received
    /\ UNCHANGED <<score_vars, pipeline_vars>>

\* accept() raised: connect and the endpoint end with the exception
WsAcceptFailed(w) ==
    /\ ws_pc[w] = "accepting"
    /\ ws_pc' = [ws_pc EXCEPT ![w] = "closed"]
    /\ UNCHANGED <<active_connections, connection_metadata, received, bcast>>
    /\ UNCHANGED <<score_vars, pipeline_vars>>

\* the welcome message was sent: the endpoint enters its receive loop
WsWelcomeSent(w) ==
    /\ ws_pc[w] = "welcoming"
    /\ received' = [received EXCEPT ![w] = Append(@, [type |-> "connection", id |-> 0])]
    /\ ws_pc' = [ws_pc EXCEPT ![w] = "open"]
    /\ UNCHANGED <<active_connections, connection_metadata, bcast>>
    /\ UNCHANGED <<score_vars, pipeline_vars>>

\* send_json of the welcome message raised: connect is called outside the
\* endpoint's try block, so the endpoint ends without calling disconnect
WsWelcomeFailed(w) ==
    /\ ws_pc[w] = "welcoming"
    /\ ws_pc' = [ws_pc EXCEPT ![w] = "closed"]
    /\ UNCHANGED <<active_connections, connection_metadata, received, bcast>>
    /\ UNCHANGED <<score_vars, pipeline_vars>>

\* receive_text() raised WebSocketDisconnect: the endpoint calls disconnect
WsClientDisconnect(w) ==
    /\ ws_pc[w] = "open"
    /\ LET reg == disconnect([conns |-> active_connections, meta |-> connection_metadata], w)
       IN /\ active_connections' = reg.conns
          /\ connection_metadata' = reg.meta
    /\ ws_pc' = [ws_pc EXCEPT ![w] = "closed"]
    /\ bcast' = MarkMutated(bcast)
    /\ UNCHANGED received
    /\ UNCHANGED <<score_vars, pipeline_vars>>

\* the for loop of send_alert asks its list iterator for the next connection:
\* the iterator holds an index into the live list; when it is exhausted the
\* clean-up loop follows
IterNext(b) ==
    IF b.idx < Len(active_connections)
    THEN [b EXCEPT !.pc = "await_send", !.idx = b.idx + 1,
                   !.cur = active_connections[b.idx + 1]]
    ELSE [b EXCEPT !.pc = "cleanup"]

\* send_alert(alert a), up to its first await
send_alert_begin(a) ==
    /\ bcast[a].pc \in {"none", "scheduled"}
    /\ IF active_connections = << >>
       THEN bcast' = [bcast EXCEPT ![a] = DoneTask]
       ELSE bcast' = [bcast EXCEPT ![a] =
                         IterNext([IdleTask EXCEPT !.snapshot = active_connections])]
    /\ UNCHANGED <<active_connections, connection_metadata, ws_pc, received>>

\* the broadcast for alert a returns from send_alert in this step
SendAlertReturns(a) ==
    /\ bcast[a].pc = "await_send"
    /\ bcast[a].idx >= Len(active_connections)

\* send_json can only succeed on a socket whose client is still there
SendCanSucceed(w) == ws_pc[w] \in {"welcoming", "open"}

\* send_alert(alert a) resumes from `await connection.send_json(message)`,
\* which returned (ok) or raised, and runs to its next await or to its end
send_alert_resume(a, ok) ==
    /\ bcast[a].pc = "await_send"
    /\ ok => SendCanSucceed(bcast[a].cur)
    /\ LET b == bcast[a]
           w == b.cur
           b1 == IF ok THEN b ELSE [b EXCEPT !.disconnected = Append(@, w)]
           meta1 == IF ok /\ w \in DOMAIN connection_metadata
                    THEN [connection_metadata EXCEPT ![w].alerts_received = @ + 1]
                    ELSE connection_metadata
           b2 == IterNext(b1)
           returns == b2.pc = "cleanup"
           reg == CleanUp([conns |-> active_connections, meta |-> meta1], b2.disconnected)
           others == IF returns /\ b2.disconnected # << >>
                     THEN MarkMutated(bcast) ELSE bcast
       IN /\ received' = IF ok THEN [received EXCEPT ![w] = Append(@, [type |-> "fraud_alert", id |-> a])]
                         ELSE received
          /\ IF returns
             THEN /\ active_connections' = reg.conns
                  /\ connection_metadata' = reg.meta
             ELSE /\ active_connections' = active_connections
                  /\ connection_metadata' = meta1
          /\ bcast' = [others EXCEPT ![a] = IF returns THEN DoneTask ELSE b2]
    /\ UNCHANGED ws_pc


\* WebSocketManager.get_connection_stats: the length of the list and one
\* detail entry per key of the metadata dict
get_connection_stats ==
    [ active_connections |-> Len(active_connections),
      connection_details |->
          [w \in DOMAIN connection_metadata |->
              [alerts_received |-> connection_metadata[w].alerts_received]] ]

(***************************************************************************)
(* The pipeline: state of main.py, kafka_producer.py, kafka_consumer.py,   *)
(* the persistence store and the three topics of the transport.            *)
(***************************************************************************)
Requests == 1..MaxRequests

\* a handler of POST /api/v1/transactions runs without interleaving with
\* another one, so the inputs are numbered in the order they are handled
NextRequest(r) ==
    /\ lifecycle = "up"
    /\ req[r].pc = "new"
    /\ \A q \in Requests : q < r => req[q].pc = "done"

\* the first transaction of the streaming test script, a small domestic
\* purchase (merchant name, device id and ip address abbreviated)
TxnA ==
    [ amount |-> 4599, merchant_name |-> <<"S", "h", "o", "p">>,
      merchant_country |-> US, transaction_country |-> US,
      payment_method |-> "credit_card", device_id |-> "id-001",
      ip_address |-> "id-001" ]

\* a large prepaid withdrawal at a suspicious merchant in a high-risk country
TxnD ==
    [ amount |-> 1100000, merchant_name |-> <<"T", "E", "S", "T", " ", "a", "t", "m">>,
      merchant_country |-> XX, transaction_country |-> XX,
      payment_method |-> "prepaid_card", device_id |-> "None",
      ip_address |-> "None" ]

\* a body that TransactionCreate rejects (amount is not > 0)
BadTxn == [TxnA EXCEPT !.amount = 0]

PipelineTxns == {TxnA, TxnD}

\* the estimators the service may have loaded: each is a function of the
\* transaction's features
Estimators == [PipelineTxns -> {0, Dec(100)}]

\* the classifier outcome of scoring transaction t, given ml_model.model
PipelineClf(t) ==
    IF ml_model = "None" THEN [kind |-> "NoModel", p |-> 0]
    ELSE [kind |-> "proba", p |-> predict_proba[t]]

\* schemas.py: the constraints of TransactionCreate on the modelled fields
Validates(data) ==
    /\ data # None
    /\ data.amount > 0
    /\ Len(data.merchant_country) <= 2
    /\ Len(data.transaction_country) <= 2

\* an Optional[str] of a request body: None, or the string given
Absent == [given |-> FALSE, value |-> << >>]

Given(s) == [given |-> TRUE, value |-> s]

Digits == {"0", "1", "2", "3", "4", "5", "6", "7", "8", "9"}

\* Field(None, pattern="^[0-9]{4}$") on a string
card_pattern(v) == Len(v) = 4 /\ \A i \in 1..Len(v) : v[i] \in Digits

\* str.isdigit() on the characters of the model
isdigit(v) == v # << >> /\ \A i \in 1..Len(v) : v[i] \in Digits

\* TransactionBase.validate_card_last_four: raises for a non-empty value that
\* is not all digits
validate_card_last_four(v) == ~(v # << >> /\ ~isdigit(v))

\* TransactionCreate(**body): the body passes the constraints of the fields
\* (amount, the two country codes, card_last_four)
TransactionCreate(body) ==
    /\ Validates(body)
    /\ \/ ~body.card_last_four.given
       \/ /\ card_pattern(body.card_last_four.value)
          /\ validate_card_last_four(body.card_last_four.value)

\* request bodies offered to the validation: amounts (cents) below, at and
\* above zero, country codes of 0 to 3 characters, card_last_four absent,
\* empty, too short, too long, with a letter, and well-formed
BodyAmounts == {-100, 0, 1, 4599}

BodyCountries == {<< >>, <<"U">>, US, <<"U", "S", "A">>}

BodyCards ==
    { Absent, Given(<< >>), Given(<<"1", "2", "3">>), Given(<<"1", "2", "3", "4">>),
      Given(<<"1", "2", "a", "4">>), Given(<<"1", "2", "3", "4", "5">>) }

Bodies ==
    [ amount : BodyAmounts, merchant_country : BodyCountries,
      transaction_country : BodyCountries, card_last_four : BodyCards ]

\* the framework validates the body of POST /api/v1/transactions against
\* TransactionCreate before the handler runs: 422 when it is rejected
ValidateBody ==
    /\ analysis = None
    /\ analysis' = [ kind |-> "validation",
                     accepted |-> TransactionCreate(request_in.body),
                     code |-> IF TransactionCreate(request_in.body) THEN 200 ELSE 422 ]
    /\ UNCHANGED <<registry_vars, request_in, pipeline_vars>>

NoResponse == [code |-> 0, id |-> -1, status |-> "none", risk_score |-> 0,
               risk_level |-> "none", fraud_prediction |-> FALSE,
               verification_required |-> FALSE, scored |-> FALSE]

ErrorResponse(code) == [NoResponse EXCEPT !.code = code]

\* the exceptions raised inside the try block of create_transaction: the
\* HTTPException(503) raised when publish_transaction reports False, an
\* exception of the lazy producer start, an exception of db.commit()
PublishFailed == [kind |-> "HTTPException", status_code |-> 503]

StartFailed == [kind |-> "Exception", status_code |-> 0]

CommitFailed == [kind |-> "Exception", status_code |-> 0]

\* the except clause of create_transaction: HTTPException is an Exception, so
\* `except Exception` catches it too and every exception is answered 500
create_transaction_except(exc) == ErrorResponse(500)

NewRequest == [pc |-> "new", stream_mode |-> FALSE, response |-> NoResponse]

NoCur == [id |-> 0, key |-> 0, alert_due |-> FALSE]

\* no status query was answered yet
NoStatus ==
    [queries |-> 0, kafka_producer |-> "none", running |-> FALSE,
     processed_count |-> 0, error_count |-> 0, success_rate |-> 0,
     active_connections |-> 0, system_status |-> "none"]

\* a caller of the service methods: the method it is in or was in last (op),
\* where it is suspended (pc), the handle its pending await is on (via), the
\* producer its call has constructed (built, 0: none), and what its last call
\* gave back (result)
NoCall == [op |-> "none", pc |-> "idle", via |-> 0, built |-> 0, result |-> "none"]

Callers == 1..MaxCallers

\* asyncio.Lock(): not held, nobody waiting
Unlocked == [holder |-> 0, waiters |-> << >>]

\* bookkeeping of the handles: how many AIOKafkaProducer objects were
\* constructed and which one self.producer is (0: None); the state of every
\* AIOKafkaConsumer constructed and which one self.consumer is (0: None); the
\* number of method calls made; the counts logged by kafka_consumer.stop()
NothingMade ==
    [producers |-> 0, producer_id |-> 0, consumers |-> << >>, consumer_id |-> 0,
     calls |-> 0, reported |-> << >>]

(***************************************************************************)
(* kafka_producer.py                                                       *)
(***************************************************************************)
\* the shape shared by the three publish_* methods: start the producer if
\* there is none (start raises when it fails), then send; a KafkaError of send
\* is caught and reported as False
producer_send(start_ok, send_ok) ==
    IF producer = "None" /\ ~start_ok
    THEN [producer |-> "None", result |-> "raise", sent |-> FALSE]
    ELSE [producer |-> "started",
          result |-> IF send_ok THEN "True" ELSE "False", sent |-> send_ok]

\* KafkaProducerService.publish_transaction
publish_transaction(transaction_data, transaction_id, start_ok, send_ok) ==
    LET o == producer_send(start_ok, send_ok)
        message == [transaction_id |-> transaction_id, data |-> transaction_data,
                    status |-> "pending_analysis"]
    IN [producer |-> o.producer, result |-> o.result,
        topic |-> IF o.sent THEN Append(transaction_topic, message) ELSE transaction_topic]

\* KafkaProducerService.publish_alert
publish_alert(alert_data, start_ok, send_ok) ==
    LET o == producer_send(start_ok, send_ok)
    IN [producer |-> o.producer, result |-> o.result,
        topic |-> IF o.sent THEN Append(alert_topic, alert_data) ELSE alert_topic]

\* KafkaProducerService.publish_processed_result
publish_processed_result(result_data, start_ok, send_ok) ==
    LET o == producer_send(start_ok, send_ok)
    IN [producer |-> o.producer, result |-> o.result,
        topic |-> IF o.sent THEN Append(processed_topic, result_data) ELSE processed_topic]

(***************************************************************************)
(* Persistence: db.add, db.commit, db.refresh.  The primary key is assigned *)
(* by the store; nothing else about a record is unique.                    *)
(***************************************************************************)
NextId(table) == Len(table) + 1

db_commit_dedup(table, rec) ==
    IF \E i \in 1..Len(table) : table[i].key # 0 /\ table[i].key = rec.key
    THEN table ELSE Append(table, rec)

db_commit(table, rec) == Append(table, rec)

\* the Transaction row built from the scoring result; via and key record which
\* path wrote it and, for the consume path, the transaction_id of its message
Record(id, t, score, risk_level, fraud, status, via, key) ==
    [ id |-> id, data |-> t, status |-> status,
      risk_score |-> score.combined_score, risk_level |-> risk_level,
      fraud_prediction |-> fraud,
      fraud_reasons |-> score.reasons,
      verification_required |-> verification_required(risk_level),
      ml_score |-> score.ml_score, rule_score |-> score.rule_score,
      via |-> via, key |-> key ]

\* the alert_data dict built in both paths
AlertData(rec) ==
    [ transaction_id |-> rec.id,
      alert_type |-> IF rec.fraud_prediction THEN "FRAUD_DETECTED" ELSE "HIGH_RISK",
      risk_score |-> rec.risk_score ]


(***************************************************************************)
(* main.py: POST /api/v1/transactions                                      *)
(***************************************************************************)
DirectStatus_medium_approved(fraud, risk_level) ==
    IF fraud THEN "declined" ELSE "approved"

\* create_transaction, direct mode: "Determine status based on risk"
DirectStatus(fraud, risk_level) ==
    IF fraud THEN "declined"
    ELSE IF risk_level = "medium" THEN "flagged"
    ELSE "approved"

DirectAlertDue_medium_too(fraud, risk_level) ==
    fraud \/ risk_level \in {"medium", "high"}

\* create_transaction, direct mode: "Send alert if high risk"
DirectAlertDue(fraud, risk_level) == fraud \/ risk_level = "high"

DirectAlertType_high_risk(fraud) == "HIGH_RISK"

\* create_transaction, direct mode: alert_type of alert_data
DirectAlertType(fraud) == IF fraud THEN "FRAUD_DETECTED" ELSE "HIGH_RISK"

\* create_transaction, direct mode, from the scoring to the alert decision:
\* the Transaction row (before the store assigns its id), whether an alert is
\* sent and its type
DirectOutcome(clf, t) ==
    LET score == analyze_transaction(clf, t)
        risk_level == get_risk_level(score.combined_score)
        fraud == is_fraud(score.combined_score)
    IN [ record |-> Record(0, t, score, risk_level, fraud,
                           DirectStatus(fraud, risk_level), "direct", 0),
         alert_due |-> DirectAlertDue(fraud, risk_level),
         alert_type |-> DirectAlertType(fraud) ]

DirectAddsTask_despite_failure(commit_ok, fraud, risk_level) ==
    DirectAlertDue(fraud, risk_level)

\* create_transaction, direct mode: background_tasks.add_task is reached only
\* when db.commit() has not raised
DirectAddsTask(commit_ok, fraud, risk_level) ==
    commit_ok /\ DirectAlertDue(fraud, risk_level)

\* transaction_to_response(db_transaction, ml_info)
transaction_to_response(rec) ==
    [ code |-> 200, id |-> rec.id, status |-> rec.status,
      risk_score |-> rec.risk_score, risk_level |-> rec.risk_level,
      fraud_prediction |-> rec.fraud_prediction,
      verification_required |-> rec.verification_required, scored |-> TRUE ]

\* a request body that fails the validation of TransactionCreate never
\* reaches create_transaction: the framework answers 422
RejectInvalid(r) ==
    /\ NextRequest(r)
    /\ req' = [req EXCEPT ![r] = [pc |-> "done", stream_mode |-> FALSE,
                                  response |-> ErrorResponse(422)]]
    /\ ~Validates(BadTxn)
    /\ UNCHANGED <<registry_vars, score_vars, ml_model, predict_proba, svc_vars, streaming_status, lifecycle, producer, consumer,
                   consumer_vars, transport_vars, db, uuid_counter>>

DirectCommit_retried(table, rec, commit_ok) == db_commit(table, rec)

\* db.add, db.commit, db.refresh of create_transaction: one attempt; when it
\* raises, the except clause rolls the session back and the table is as before
DirectCommit(table, rec, commit_ok) ==
    IF commit_ok THEN db_commit(table, rec) ELSE table

\* create_transaction with stream_mode = False: scoring, status, insert and
\* the scheduling of the alert run without any await
ProcessDirect(r, t, commit_ok) ==
    /\ NextRequest(r)
    /\ Validates(t)
    /\ LET score == analyze_transaction(PipelineClf(t), t)
           risk_level == get_risk_level(score.combined_score)
           fraud == is_fraud(score.combined_score)
           status == DirectStatus(fraud, risk_level)
           rec == Record(NextId(db), t, score, risk_level, fraud, status, "direct", 0)
       IN /\ db' = DirectCommit(db, rec, commit_ok)
          /\ bcast' = IF DirectAddsTask(commit_ok, fraud, risk_level)
                      THEN [bcast EXCEPT ![rec.id].pc = "scheduled"]
                      ELSE bcast
          /\ req' = [req EXCEPT ![r] =
                       [pc |-> "done", stream_mode |-> FALSE,
                        response |-> IF commit_ok THEN transaction_to_response(rec)
                                     ELSE create_transaction_except(CommitFailed)]]
    /\ UNCHANGED <<active_connections, connection_metadata, ws_pc, received,
                   score_vars, ml_model, predict_proba, svc_vars, streaming_status, lifecycle, producer, consumer,
                   consumer_vars, transport_vars, uuid_counter>>

\* the background task of a direct request starts: send_alert up to its first await
BackgroundTaskRun(a) ==
    /\ bcast[a].pc = "scheduled"
    /\ send_alert_begin(a)
    /\ UNCHANGED <<score_vars, pipeline_vars>>

\* a broadcast that is not awaited by the consume loop resumes
BackgroundSendJson(a, ok) ==
    /\ ~(consumer_pc = "broadcast" /\ cur.id = a)
    /\ send_alert_resume(a, ok)
    /\ UNCHANGED <<score_vars, pipeline_vars>>

(***************************************************************************)
(* main.py: POST /api/v1/test-transaction                                  *)
(***************************************************************************)
\* the amounts and the merchant the test endpoint is called with (cents)
TestAmounts == {10000, 300000, 700000, 1100000}

TestMerchants == {<<"S", "h", "o", "p">>}

\* the columns of the Transaction model that create_test_transaction does not
\* set take the defaults of the model
ColumnDefaults ==
    [ status |-> "pending", risk_level |-> "low", verification_required |-> FALSE ]

\* the Transaction row built by create_test_transaction: its risk score and
\* fraud flag come from the amount alone, no status is given
TestRecord(id, amount, merchant) ==
    [ id |-> id,
      data |-> [ amount |-> amount, merchant_name |-> merchant,
                 merchant_country |-> US, transaction_country |-> US,
                 payment_method |-> "credit_card", device_id |-> "None",
                 ip_address |-> "None" ],
      status |-> ColumnDefaults.status,
      risk_score |-> IF amount < 100000 THEN Dec(10)
                     ELSE IF amount < 500000 THEN Dec(50) ELSE Dec(80),
      risk_level |-> ColumnDefaults.risk_level,
      fraud_prediction |-> amount > 1000000,
      fraud_reasons |-> << >>,
      verification_required |-> ColumnDefaults.verification_required,
      ml_score |-> 0, rule_score |-> 0,
      via |-> "test", key |-> 0 ]

\* the answer of create_test_transaction
TestResponse(rec) ==
    [ code |-> 200, id |-> rec.id, status |-> "success",
      risk_score |-> rec.risk_score, risk_level |-> "none",
      fraud_prediction |-> rec.fraud_prediction,
      verification_required |-> FALSE, scored |-> FALSE ]

\* create_test_transaction: db.add, db.commit, db.refresh; when the commit
\* raises, the session is rolled back and the answer is 500
create_test_transaction(r, amount, merchant, commit_ok) ==
    /\ NextRequest(r)
    /\ LET rec == TestRecord(NextId(db), amount, merchant)
       IN /\ db' = IF commit_ok THEN db_commit(db, rec) ELSE db
          /\ req' = [req EXCEPT ![r] =
                       [pc |-> "done", stream_mode |-> FALSE,
                        response |-> IF commit_ok THEN TestResponse(rec)
                                     ELSE ErrorResponse(500)]]
    /\ UNCHANGED <<registry_vars, score_vars, ml_model, predict_proba, svc_vars, streaming_status, lifecycle, producer, consumer,
                   consumer_vars, transport_vars, uuid_counter>>

EnqueueResponse_approved(t) ==
    [ code |-> 200, id |-> 0, status |-> "approved", risk_score |-> 0,
      risk_level |-> "low", fraud_prediction |-> FALSE,
      verification_required |-> FALSE, scored |-> FALSE ]

\* create_transaction, streaming mode: the immediate response
EnqueueResponse(t) ==
    [ code |-> 200, id |-> 0, status |-> "pending", risk_score |-> 0,
      risk_level |-> "low", fraud_prediction |-> FALSE,
      verification_required |-> FALSE, scored |-> FALSE ]

\* create_transaction with stream_mode = True.  The HTTPException(503) raised
\* when publish_transaction reports False is raised inside the try block and
\* is caught by `except Exception`, which answers 500
Enqueue(r, t, start_ok, send_ok) ==
    /\ NextRequest(r)
    /\ Validates(t)
    /\ uuid_counter' = uuid_counter + 1
    /\ LET temp_id == uuid_counter + 1
           o == publish_transaction(t, temp_id, start_ok, send_ok)
       IN /\ producer' = o.producer
          /\ transaction_topic' = o.topic
          /\ req' = [req EXCEPT ![r] =
                       [pc |-> "done", stream_mode |-> TRUE,
                        response |->
                            IF o.result = "True" THEN EnqueueResponse(t)
                            ELSE IF o.result = "False"
                            THEN create_transaction_except(PublishFailed)
                            ELSE create_transaction_except(StartFailed)]]
    /\ UNCHANGED <<registry_vars, score_vars, ml_model, predict_proba, svc_vars, streaming_status, lifecycle, consumer,
                   consumer_vars, offset, redelivered, foreign, processed_topic,
                   alert_topic, db>>

\* the scoring steps of create_transaction (analyze, risk level, fraud flag,
\* status, verification_required), the manual-review flag of the analyze
\* endpoint and the rule evaluator alone, applied to the input drawn at the start
ScoreTransaction ==
    /\ analysis = None
    /\ LET t == request_in.txn
           rules == apply_rules(t)
           score == analyze_transaction(request_in.clf, t)
           risk_level == get_risk_level(score.combined_score)
           fraud == is_fraud(score.combined_score)
       IN analysis' =
            [ kind |-> "analysis",
              risk_score |-> score.combined_score,
              risk_level |-> risk_level,
              fraud_prediction |-> fraud,
              fraud_reasons |-> score.reasons,
              rule_score |-> score.rule_score,
              ml_score |-> score.ml_score,
              rules_only |-> rules.risk_score,
              requires_manual_review |->
                  requires_manual_review(risk_level, score.ml_score, score.rule_score),
              verification_required |-> verification_required(risk_level),
              status |-> DirectStatus(fraud, risk_level) ]
    /\ UNCHANGED <<registry_vars, request_in, pipeline_vars>>


(***************************************************************************)
(* kafka_consumer.py                                                       *)
(***************************************************************************)
ConsumeStatus_high_flagged(fraud, risk_level) ==
    IF risk_level = "medium" \/ risk_level = "high" THEN "flagged" ELSE "approved"

\* _process_single_message: "Determine status"
ConsumeStatus(fraud, risk_level) ==
    IF fraud THEN "declined"
    ELSE IF risk_level = "medium" THEN "flagged"
    ELSE "approved"

ConsumeAlertDue_never(fraud, risk_level) == FALSE

\* _process_single_message: "Send alert if high risk"
ConsumeAlertDue(fraud, risk_level) == fraud \/ risk_level = "high"

\* _process_single_message: alert_type of alert_data
ConsumeAlertType(fraud) == IF fraud THEN "FRAUD_DETECTED" ELSE "HIGH_RISK"

\* _process_single_message, from the scoring to the alert decision: the
\* Transaction row (before the store assigns its id), whether an alert is sent
\* and its type
ConsumeOutcome(clf, t) ==
    LET score == analyze_transaction(clf, t)
        risk_level == get_risk_level(score.combined_score)
        fraud == is_fraud(score.combined_score)
    IN [ record |-> Record(0, t, score, risk_level, fraud,
                           ConsumeStatus(fraud, risk_level), "consume", 0),
         alert_due |-> ConsumeAlertDue(fraud, risk_level),
         alert_type |-> ConsumeAlertType(fraud) ]

\* what is known of the two paths for the input drawn: nothing yet, or the
\* outcome of each path that has handled it
PathsOf(a) == IF a = None THEN [kind |-> "paths", direct |-> None, consume |-> None] ELSE a

\* the direct path handles the input drawn
DirectScore ==
    /\ PathsOf(analysis).direct = None
    /\ analysis' = [PathsOf(analysis) EXCEPT
                       !.direct = DirectOutcome(request_in.clf, request_in.txn)]
    /\ UNCHANGED <<registry_vars, request_in, pipeline_vars>>

\* the consume path handles the same input
ConsumeScore ==
    /\ PathsOf(analysis).consume = None
    /\ analysis' = [PathsOf(analysis) EXCEPT
                       !.consume = ConsumeOutcome(request_in.clf, request_in.txn)]
    /\ UNCHANGED <<registry_vars, request_in, pipeline_vars>>

HandlingRaised_escapes(kind) ==
    /\ error_count' = error_count + 1
    /\ processed_count' = processed_count
    /\ running' = FALSE
    /\ consumer_pc' = "ended"
    /\ consumer_event' = "raised"
    /\ cur' = NoCur

HandlingRaised_uncounted(kind) ==
    /\ error_count' = error_count
    /\ processed_count' = processed_count
    /\ running' = running
    /\ consumer_pc' = "wait"
    /\ consumer_event' = "raised"
    /\ cur' = NoCur

\* process_messages: _process_single_message raised; the inner except counts
\* the error and the loop goes on to the next message
HandlingRaised(kind) ==
    /\ error_count' = error_count + 1
    /\ processed_count' = processed_count
    /\ running' = running
    /\ consumer_pc' = "wait"
    /\ consumer_event' = "raised"
    /\ cur' = NoCur

\* process_messages: _process_single_message returned
HandlingReturned ==
    /\ processed_count' = processed_count + 1
    /\ error_count' = error_count
    /\ running' = running
    /\ consumer_pc' = "wait"
    /\ consumer_event' = "returned"
    /\ cur' = NoCur

\* the loop takes the next delivery; _process_single_message runs up to its
\* first await (publish_processed_result) unless it raises before
ConsumeTake(commit_ok) ==
    /\ consumer_pc = "wait"
    /\ consumer = "started"
    /\ offset < Len(transaction_topic)
    /\ offset' = offset + 1
    /\ LET message == transaction_topic[offset + 1]
           t == message.data
       IN IF ~running
          THEN /\ consumer_pc' = "ended"
               /\ consumer_event' = "break"
               /\ UNCHANGED <<running, processed_count, error_count, cur, db>>
          ELSE IF ~Validates(t)
          THEN HandlingRaised("validation_error") /\ db' = db
          ELSE LET score == analyze_transaction(PipelineClf(t), t)
                   risk_level == get_risk_level(score.combined_score)
                   fraud == is_fraud(score.combined_score)
                   status == ConsumeStatus(fraud, risk_level)
                   rec == Record(NextId(db), t, score, risk_level, fraud, status,
                                 "consume", message.transaction_id)
               IN IF ~commit_ok
                  THEN HandlingRaised("commit_error") /\ db' = db
                  ELSE /\ db' = db_commit(db, rec)
                       /\ cur' = [id |-> rec.id, key |-> message.transaction_id,
                                  alert_due |-> ConsumeAlertDue(fraud, risk_level)]
                       /\ consumer_pc' = "publish_result"
                       /\ consumer_event' = "handling"
                       /\ UNCHANGED <<running, processed_count, error_count>>
    /\ UNCHANGED <<registry_vars, score_vars, ml_model, predict_proba, svc_vars, streaming_status, lifecycle, producer, consumer,
                   transaction_topic, redelivered, foreign, processed_topic,
                   alert_topic, req, uuid_counter>>

\* the record the handling in flight has inserted
CurRecord == db[cur.id]

\* publish_processed_result(result) is over; its return value is ignored
ConsumePublishResult(start_ok, send_ok) ==
    /\ consumer_pc = "publish_result"
    /\ LET rec == CurRecord
           result == [transaction_id |-> rec.id, status |-> rec.status,
                      risk_score |-> rec.risk_score, risk_level |-> rec.risk_level,
                      fraud_prediction |-> rec.fraud_prediction]
           o == publish_processed_result(result, start_ok, send_ok)
       IN /\ producer' = o.producer
          /\ processed_topic' = o.topic
          /\ IF o.result = "raise" THEN HandlingRaised("publish_error")
             ELSE IF cur.alert_due
             THEN /\ consumer_pc' = "publish_alert"
                  /\ consumer_event' = "handling"
                  /\ UNCHANGED <<running, processed_count, error_count, cur>>
             ELSE HandlingReturned
    /\ UNCHANGED <<registry_vars, score_vars, ml_model, predict_proba, svc_vars, streaming_status, lifecycle, consumer,
                   transaction_topic, offset, redelivered, foreign, alert_topic,
                   db, req, uuid_counter>>

\* publish_alert(alert_data) is over; then send_alert runs to its first await
ConsumePublishAlert(start_ok, send_ok) ==
    /\ consumer_pc = "publish_alert"
    /\ LET o == publish_alert(AlertData(CurRecord), start_ok, send_ok)
       IN /\ producer' = o.producer
          /\ alert_topic' = o.topic
          /\ IF o.result = "raise"
             THEN HandlingRaised("publish_error") /\ UNCHANGED registry_vars
             ELSE /\ send_alert_begin(cur.id)
                  /\ IF active_connections = << >>
                     THEN HandlingReturned
                     ELSE /\ consumer_pc' = "broadcast"
                          /\ consumer_event' = "handling"
                          /\ UNCHANGED <<running, processed_count, error_count, cur>>
    /\ UNCHANGED <<score_vars, ml_model, predict_proba, svc_vars, streaming_status, lifecycle, consumer, transaction_topic,
                   offset, redelivered, foreign, processed_topic, db, req, uuid_counter>>

\* the send_alert awaited by the handling in flight resumes; when it returns,
\* so does _process_single_message
ConsumeSendJson(ok) ==
    /\ consumer_pc = "broadcast"
    /\ send_alert_resume(cur.id, ok)
    /\ IF SendAlertReturns(cur.id)
       THEN HandlingReturned
       ELSE UNCHANGED consumer_vars
    /\ UNCHANGED <<score_vars, ml_model, predict_proba, svc_vars, streaming_status, lifecycle, producer, consumer,
                   transport_vars, db, req, uuid_counter>>

LoopRaised_keeps_running == running' = running

\* the outer except clause of process_messages: the error is logged and
\* self.running = False
LoopRaised == running' = FALSE

\* iterating the consumer raised: the outer except of process_messages
ConsumerLoopError ==
    /\ consumer_pc = "wait"
    /\ consumer = "started"
    /\ LoopRaised
    /\ consumer_pc' = "ended"
    /\ consumer_event' = "loop_error"
    /\ UNCHANGED <<registry_vars, score_vars, ml_model, predict_proba, svc_vars, streaming_status, lifecycle, producer, consumer,
                   processed_count, error_count, cur, transport_vars, db, req,
                   uuid_counter>>

\* the consumer was stopped: the async for ends
ConsumerLoopEnds ==
    /\ consumer_pc = "wait"
    /\ consumer = "stopped"
    /\ consumer_pc' = "ended"
    /\ consumer_event' = "stopped"
    /\ UNCHANGED <<registry_vars, score_vars, ml_model, predict_proba, svc_vars, streaming_status, lifecycle, producer, consumer,
                   running, processed_count, error_count, cur, transport_vars, db,
                   req, uuid_counter>>


(***************************************************************************)
(* main.py: startup_event and shutdown_event; the transport's environment. *)
(***************************************************************************)
\* startup_event: kafka_producer.start() (a failure is logged and ignored),
\* then kafka_consumer.start(), which starts the producer if there is none and
\* raises if that or the consumer's own start fails; process_messages is
\* scheduled only if kafka_consumer.start() returned
Startup(producer_ok, retry_ok, consumer_ok) ==
    /\ lifecycle = "init"
    /\ lifecycle' = "up"
    /\ LET p1 == IF producer_ok THEN "started" ELSE "None"
           p2 == IF p1 = "None" /\ retry_ok THEN "started" ELSE p1
       IN /\ producer' = p2
          /\ IF p2 = "None"
             THEN UNCHANGED <<consumer, running, consumer_pc>>
             ELSE IF consumer_ok
             THEN /\ consumer' = "started"
                  /\ running' = TRUE
                  /\ consumer_pc' = "wait"
             ELSE /\ consumer' = "created"
                  /\ UNCHANGED <<running, consumer_pc>>
    /\ UNCHANGED <<registry_vars, score_vars, ml_model, predict_proba, svc_vars, streaming_status, processed_count, error_count,
                   consumer_event, cur, transport_vars, db, req, uuid_counter>>

\* shutdown_event, first await: kafka_producer.stop()
ShutdownProducerStop ==
    /\ lifecycle = "up"
    /\ lifecycle' = "producer_stopped"
    /\ producer' = "None"
    /\ UNCHANGED <<registry_vars, score_vars, ml_model, predict_proba, svc_vars, streaming_status, consumer, consumer_vars,
                   transport_vars, db, req, uuid_counter>>

consumer_stop_resets ==
    running' = FALSE /\ processed_count' = 0 /\ error_count' = 0

\* the assignments of KafkaConsumerService.stop: running = False; the counters
\* are read for the log line only
consumer_stop ==
    running' = FALSE /\ UNCHANGED <<processed_count, error_count>>

\* shutdown_event, then kafka_consumer.stop(): running = False, and the
\* consumer handle, if any, is asked to stop
ShutdownConsumerStop ==
    /\ lifecycle = "producer_stopped"
    /\ consumer_stop
    /\ lifecycle' = IF consumer = "None" THEN "down" ELSE "consumer_stopping"
    /\ UNCHANGED <<registry_vars, score_vars, ml_model, predict_proba, svc_vars, streaming_status, producer, consumer,
                   consumer_pc, consumer_event, cur,
                   transport_vars, db, req, uuid_counter>>

\* consumer.stop() returned
ShutdownConsumerStopped ==
    /\ lifecycle = "consumer_stopping"
    /\ consumer' = "stopped"
    /\ lifecycle' = "down"
    /\ UNCHANGED <<registry_vars, score_vars, ml_model, predict_proba, svc_vars, streaming_status, producer, consumer_vars,
                   transport_vars, db, req, uuid_counter>>

\* another producer writes to the inbound topic: a well-formed message, one
\* without data, or one whose data TransactionCreate rejects
ForeignPublish(r, data) ==
    /\ NextRequest(r)
    /\ req' = [req EXCEPT ![r] = [pc |-> "done", stream_mode |-> TRUE,
                                  response |-> NoResponse]]
    /\ foreign' = foreign + 1
    /\ transaction_topic' = Append(transaction_topic,
          [transaction_id |-> 0 - (foreign + 1), data |-> data,
           status |-> "pending_analysis"])
    /\ UNCHANGED <<registry_vars, score_vars, ml_model, predict_proba, svc_vars, streaming_status, lifecycle, producer, consumer,
                   consumer_vars, offset, redelivered, processed_topic, alert_topic,
                   db, uuid_counter>>

\* at-least-once delivery: the transport delivers the last message again
Redeliver ==
    /\ consumer_pc = "wait"
    /\ consumer = "started"
    /\ offset > 0
    /\ redelivered < MaxRedeliver
    /\ redelivered' = redelivered + 1
    /\ offset' = offset - 1
    /\ UNCHANGED <<registry_vars, score_vars, ml_model, predict_proba, svc_vars, streaming_status, lifecycle, producer, consumer,
                   consumer_vars, transaction_topic, foreign, processed_topic,
                   alert_topic, db, req, uuid_counter>>

\* KafkaConsumerService.get_stats: success_rate is the percentage of the
\* handled messages that were processed, 0 while none was
get_stats ==
    [running |-> running, processed_count |-> processed_count,
     error_count |-> error_count,
     success_rate |-> IF processed_count > 0
                      THEN (processed_count * Dec(100)) \div (processed_count + error_count)
                      ELSE 0]

\* get_streaming_status: "connected" if kafka_producer.producer else "disconnected"
kafka_producer_status ==
    IF producer # "None" THEN "connected" ELSE "disconnected"

\* GET /api/v1/streaming/status: the handler reads the consumer's statistics,
\* the registry's and the producer handle, and has no suspension point
get_streaming_status ==
    /\ streaming_status.queries < MaxQueries
    /\ LET consumer_stats == get_stats
       IN streaming_status' =
             [queries |-> streaming_status.queries + 1,
              kafka_producer |-> kafka_producer_status,
              running |-> consumer_stats.running,
              processed_count |-> consumer_stats.processed_count,
              error_count |-> consumer_stats.error_count,
              success_rate |-> consumer_stats.success_rate,
              active_connections |-> Len(active_connections),
              system_status |-> IF consumer_stats.running
                                THEN "operational" ELSE "degraded"]
    /\ UNCHANGED <<registry_vars, score_vars, ml_model, predict_proba, svc_vars,
                   lifecycle, producer, consumer, consumer_vars, transport_vars,
                   db, req, uuid_counter>>

(***************************************************************************)
(* kafka_producer.py and kafka_consumer.py, one await at a time: the       *)
(* methods of the two singletons called by concurrent coroutines.          *)
(***************************************************************************)
Publishes == {"publish_transaction", "publish_alert", "publish_processed_result"}

\* what the service methods leave alone
ServiceFrame ==
    UNCHANGED <<registry_vars, score_vars, ml_model, predict_proba, lifecycle,
                streaming_status, processed_count, error_count, consumer_pc, consumer_event, cur,
                offset, redelivered, foreign, db, req, uuid_counter>>

NoSend == UNCHANGED <<transaction_topic, processed_topic, alert_topic>>

LockFree_always == TRUE

\* asyncio.Lock.acquire returns at once when the lock is not held and no
\* coroutine waits for it; otherwise the caller queues
LockFree == lock.holder = 0 /\ lock.waiters = << >>

\* asyncio.Lock.release wakes the first waiter: it is the next holder
LockGranted(t) ==
    lock.holder = 0 /\ lock.waiters # << >> /\ Head(lock.waiters) = t

Release(l) == [l EXCEPT !.holder = 0]

Returned(t, op, result) ==
    [call EXCEPT ![t] = [op |-> op, pc |-> "idle", via |-> 0, built |-> 0,
                         result |-> result]]

At(t, op, pc, via) ==
    [call EXCEPT ![t] =
        [op |-> op, pc |-> pc, via |-> via,
         built |-> IF pc = "start_await" THEN via
                   ELSE IF call[t].pc = "start_await" THEN call[t].via ELSE 0,
         result |-> "none"]]

\* self.consumer, as the pipeline sees it
CurrentConsumer(m) ==
    IF m.consumer_id = 0 THEN "None" ELSE m.consumers[m.consumer_id]

\* KafkaProducerService.start has returned to the method op of caller t,
\* leaving lock l, handle state p and bookkeeping m: start itself returns;
\* publish_* goes on to send on self.producer; KafkaConsumerService.start
\* assigns a new AIOKafkaConsumer to self.consumer and awaits its start()
StartReturned(t, op, l, p, m) ==
    /\ lock' = l
    /\ producer' = p
    /\ running' = running
    /\ NoSend
    /\ IF op = "consumer.start"
       THEN LET h == Len(m.consumers) + 1
            IN /\ made' = [m EXCEPT !.consumers = Append(@, "created"),
                                    !.consumer_id = h]
               /\ consumer' = "created"
               /\ call' = At(t, op, "consumer_start_await", h)
       ELSE /\ made' = m
            /\ consumer' = consumer
            /\ call' = IF op \in Publishes
                       THEN At(t, op, "send_await", m.producer_id)
                       ELSE Returned(t, op, "None")

\* the body of KafkaProducerService.start once caller t holds the lock, for
\* the waiters w and bookkeeping m: with no producer, a new AIOKafkaProducer is
\* assigned to self.producer and its start() awaited inside the lock
StartBody(t, op, w, m) ==
    IF producer = "None"
    THEN /\ producer' = "created"
         /\ made' = [m EXCEPT !.producers = @ + 1, !.producer_id = m.producers + 1]
         /\ lock' = [holder |-> t, waiters |-> w]
         /\ call' = At(t, op, "start_await", m.producers + 1)
         /\ UNCHANGED <<consumer, running>>
         /\ NoSend
    ELSE StartReturned(t, op, [holder |-> 0, waiters |-> w], producer, m)

\* async with self._lock, for a caller that finds the lock taken
LockWait(t, op, m) ==
    /\ lock' = [lock EXCEPT !.waiters = Append(@, t)]
    /\ call' = At(t, op, "lock_wait", 0)
    /\ made' = m
    /\ UNCHANGED <<producer, consumer, running>>
    /\ NoSend

\* the body of KafkaProducerService.stop once caller t holds the lock
StopBody(t, w, m) ==
    /\ made' = m
    /\ UNCHANGED <<producer, consumer, running>>
    /\ NoSend
    /\ IF producer # "None"
       THEN /\ lock' = [holder |-> t, waiters |-> w]
            /\ call' = At(t, "producer.stop", "stop_await", m.producer_id)
       ELSE /\ lock' = [holder |-> 0, waiters |-> w]
            /\ call' = Returned(t, "producer.stop", "None")

\* a coroutine may call a method when it is in none
MayCall(t) == call[t].pc = "idle" /\ made.calls < MaxCalls

Called == [made EXCEPT !.calls = @ + 1]

\* kafka_producer.start() is called
ProducerStartCall(t) ==
    /\ MayCall(t)
    /\ IF LockFree
       THEN StartBody(t, "producer.start", lock.waiters, Called)
       ELSE LockWait(t, "producer.start", Called)
    /\ ServiceFrame

\* kafka_producer.stop() is called
ProducerStopCall(t) ==
    /\ MayCall(t)
    /\ IF LockFree
       THEN StopBody(t, lock.waiters, Called)
       ELSE LockWait(t, "producer.stop", Called)
    /\ ServiceFrame

\* one of publish_transaction, publish_alert, publish_processed_result is
\* called: "if not self.producer: await self.start()", then the send
PublishCall(t, op) ==
    /\ MayCall(t)
    /\ IF producer = "None"
       THEN IF LockFree
            THEN StartBody(t, op, lock.waiters, Called)
            ELSE LockWait(t, op, Called)
       ELSE StartReturned(t, op, lock, producer, Called)
    /\ ServiceFrame

\* kafka_consumer.start() is called: "if not kafka_producer.producer: await
\* kafka_producer.start()", then the consumer handle
ConsumerStartCall(t) ==
    /\ MayCall(t)
    /\ IF producer = "None"
       THEN IF LockFree
            THEN StartBody(t, "consumer.start", lock.waiters, Called)
            ELSE LockWait(t, "consumer.start", Called)
       ELSE StartReturned(t, "consumer.start", lock, producer, Called)
    /\ ServiceFrame

\* a waiting caller gets the lock and runs the body it waited for
LockAcquired(t) ==
    /\ call[t].pc = "lock_wait"
    /\ LockGranted(t)
    /\ IF call[t].op = "producer.stop"
       THEN StopBody(t, Tail(lock.waiters), made)
       ELSE StartBody(t, call[t].op, Tail(lock.waiters), made)
    /\ ServiceFrame

\* "await self.producer.start()" is over: it returned, or it raised and the
\* except clause sets self.producer = None and raises again; leaving the
\* "async with" block releases the lock
StartAwaitDone(t, ok) ==
    /\ call[t].pc = "start_await"
    /\ IF ok
       THEN StartReturned(t, call[t].op, Release(lock),
                          IF producer = "created" THEN "started" ELSE producer, made)
       ELSE /\ producer' = "None"
            /\ made' = [made EXCEPT !.producer_id = 0]
            /\ lock' = Release(lock)
            /\ call' = Returned(t, call[t].op, "raised")
            /\ UNCHANGED <<consumer, running>>
            /\ NoSend
    /\ ServiceFrame

\* "await self.producer.stop()" is over: self.producer = None
StopAwaitDone(t) ==
    /\ call[t].pc = "stop_await"
    /\ producer' = "None"
    /\ made' = [made EXCEPT !.producer_id = 0]
    /\ lock' = Release(lock)
    /\ call' = Returned(t, "producer.stop", "None")
    /\ UNCHANGED <<consumer, running>>
    /\ NoSend
    /\ ServiceFrame

\* the message of a publish: the callers all publish the same transaction
ServiceMessage(op) ==
    IF op = "publish_transaction"
    THEN [transaction_id |-> 1, data |-> TxnA, status |-> "pending_analysis"]
    ELSE [transaction_id |-> 1]

SendResult_only_logged(sent) == "True"

\* what a publish_* returns: True after the send, False from the except
\* KafkaError clause
SendResult(sent) == IF sent THEN "True" ELSE "False"

\* the send of a publish_* is over: the message is on its topic and the method
\* returns True, or the send raised a KafkaError, which is caught, logged and
\* answered False
SendDone(t, sent) ==
    /\ call[t].pc = "send_await"
    /\ LET op == call[t].op
           message == ServiceMessage(op)
       IN /\ transaction_topic' =
                IF sent /\ op = "publish_transaction"
                THEN Append(transaction_topic, message) ELSE transaction_topic
          /\ alert_topic' =
                IF sent /\ op = "publish_alert"
                THEN Append(alert_topic, message) ELSE alert_topic
          /\ processed_topic' =
                IF sent /\ op = "publish_processed_result"
                THEN Append(processed_topic, message) ELSE processed_topic
    /\ call' = Returned(t, call[t].op, SendResult(sent))
    /\ UNCHANGED <<lock, made, producer, consumer, running>>
    /\ ServiceFrame

\* "await self.consumer.start()" is over: running = True, or the exception is
\* logged and raised again (self.consumer keeps the handle)
ConsumerStartAwaitDone(t, ok) ==
    /\ call[t].pc = "consumer_start_await"
    /\ LET h == call[t].via
           m == IF ok THEN [made EXCEPT !.consumers[h] = "started"] ELSE made
       IN /\ made' = m
          /\ consumer' = CurrentConsumer(m)
    /\ running' = (ok \/ running)
    /\ call' = Returned(t, "consumer.start", IF ok THEN "None" ELSE "raised")
    /\ UNCHANGED <<lock, producer>>
    /\ NoSend
    /\ ServiceFrame

\* kafka_consumer.stop() is called: running = False, and with a handle in
\* self.consumer its stop() is awaited
ConsumerStopCall(t) ==
    /\ MayCall(t)
    /\ running' = FALSE
    /\ made' = Called
    /\ call' = IF made.consumer_id = 0
               THEN Returned(t, "consumer.stop", "None")
               ELSE At(t, "consumer.stop", "consumer_stop_await", made.consumer_id)
    /\ UNCHANGED <<lock, producer, consumer>>
    /\ NoSend
    /\ ServiceFrame

\* "await self.consumer.stop()" is over: the counts are logged
ConsumerStopDone(t) ==
    /\ call[t].pc = "consumer_stop_await"
    /\ LET h == call[t].via
           m == [made EXCEPT !.consumers[h] = "stopped",
                             !.reported = Append(@, <<processed_count, error_count>>)]
       IN /\ made' = m
          /\ consumer' = CurrentConsumer(m)
    /\ call' = Returned(t, "consumer.stop", "None")
    /\ UNCHANGED <<lock, producer, running>>
    /\ NoSend
    /\ ServiceFrame

(***************************************************************************)
(* Specifications.                                                         *)
(***************************************************************************)
InitRegistry ==
    /\ active_connections = << >>
    /\ connection_metadata = << >>
    /\ ws_pc = [w \in Sockets |-> "new"]
    /\ received = [w \in Sockets |-> << >>]
    /\ bcast = [a \in AlertIds |-> IdleTask]

InitPipeline ==
    /\ lifecycle = "init"
    /\ producer = "None"
    /\ consumer = "None"
    /\ running = FALSE
    /\ processed_count = 0
    /\ error_count = 0
    /\ consumer_pc = "idle"
    /\ consumer_event = "none"
    /\ cur = NoCur
    /\ transaction_topic = << >>
    /\ offset = 0
    /\ redelivered = 0
    /\ foreign = 0
    /\ processed_topic = << >>
    /\ alert_topic = << >>
    /\ db = << >>
    /\ req = [r \in Requests |-> NewRequest]
    /\ uuid_counter = 0
    /\ lock = Unlocked
    /\ call = [t \in Callers |-> NoCall]
    /\ made = NothingMade
    /\ streaming_status = NoStatus

\* the service after construction
Init ==
    /\ InitRegistry
    /\ InitPipeline
    /\ \/ ml_model = "None" /\ predict_proba = [t \in PipelineTxns |-> 0]
       \/ ml_model = "loaded" /\ predict_proba \in Estimators
    /\ request_in = None
    /\ analysis = None

\* the subscribers of the pipeline specifications
PipelineSockets == {1}

\* the registry's operations, for the sockets of ws
RegistryNext(ws) ==
    \/ \E w \in ws : WsConnectCall(w)
    \/ \E w \in ws : WsAccepted(w)
    \/ \E w \in ws : WsAcceptFailed(w)
    \/ \E w \in ws : WsWelcomeSent(w)
    \/ \E w \in ws : WsWelcomeFailed(w)
    \/ \E w \in ws : WsClientDisconnect(w)

\* the pipeline with every failure of its collaborators
Next ==
    \/ \E p, q, c \in BOOLEAN : Startup(p, q, c)
    \/ \E r \in Requests : RejectInvalid(r)
    \/ \E r \in Requests, t \in PipelineTxns, ok \in BOOLEAN : ProcessDirect(r, t, ok)
    \/ \E r \in Requests, t \in PipelineTxns, p, q \in BOOLEAN : Enqueue(r, t, p, q)
    \/ \E a \in AlertIds : BackgroundTaskRun(a)
    \/ \E a \in AlertIds, ok \in BOOLEAN : BackgroundSendJson(a, ok)
    \/ \E ok \in BOOLEAN : ConsumeTake(ok)
    \/ \E p, q \in BOOLEAN : ConsumePublishResult(p, q)
    \/ \E p, q \in BOOLEAN : ConsumePublishAlert(p, q)
    \/ \E ok \in BOOLEAN : ConsumeSendJson(ok)
    \/ ConsumerLoopError
    \/ \E r \in Requests, d \in {None, BadTxn, TxnD} : ForeignPublish(r, d)
    \/ RegistryNext(PipelineSockets)

Spec == Init /\ [][Next]_vars

\* the pipeline next to the test endpoint, which writes to the same table
NextEndpoints ==
    \/ Next
    \/ \E r \in Requests, amount \in TestAmounts, merchant \in TestMerchants,
          ok \in BOOLEAN : create_test_transaction(r, amount, merchant, ok)

SpecEndpoints == Init /\ [][NextEndpoints]_vars

\* the consume loop from startup to shutdown, with every failure of its
\* collaborators and re-delivery, next to direct requests and status queries;
\* the inbound topic is written by producers whose requests are not followed
NextConsumer ==
    \/ \E p, q, c \in BOOLEAN : Startup(p, q, c)
    \/ \E r \in Requests, d \in {None, BadTxn, TxnA, TxnD} : ForeignPublish(r, d)
    \/ \E ok \in BOOLEAN : ConsumeTake(ok)
    \/ \E p, q \in BOOLEAN : ConsumePublishResult(p, q)
    \/ \E p, q \in BOOLEAN : ConsumePublishAlert(p, q)
    \/ \E ok \in BOOLEAN : ConsumeSendJson(ok)
    \/ ConsumerLoopError
    \/ ConsumerLoopEnds
    \/ Redeliver
    \/ ShutdownProducerStop
    \/ ShutdownConsumerStop
    \/ ShutdownConsumerStopped
    \/ get_streaming_status
    \/ \E r \in Requests, t \in PipelineTxns, ok \in BOOLEAN : ProcessDirect(r, t, ok)
    \/ \E a \in AlertIds : BackgroundTaskRun(a)
    \/ \E a \in AlertIds, ok \in BOOLEAN : BackgroundSendJson(a, ok)
    \/ RegistryNext(PipelineSockets)

SpecConsumer == Init /\ [][NextConsumer]_vars

\* the pipeline while the store and the transport do not fail, with
\* re-delivery of inbound messages
NextHealthy ==
    \/ Startup(TRUE, TRUE, TRUE)
    \/ \E r \in Requests, t \in PipelineTxns : ProcessDirect(r, t, TRUE)
    \/ \E r \in Requests, t \in PipelineTxns : Enqueue(r, t, TRUE, TRUE)
    \/ \E a \in AlertIds : BackgroundTaskRun(a)
    \/ \E a \in AlertIds, ok \in BOOLEAN : BackgroundSendJson(a, ok)
    \/ ConsumeTake(TRUE)
    \/ ConsumePublishResult(TRUE, TRUE)
    \/ ConsumePublishAlert(TRUE, TRUE)
    \/ \E ok \in BOOLEAN : ConsumeSendJson(ok)
    \/ \E r \in Requests, d \in {None, BadTxn, TxnD} : ForeignPublish(r, d)
    \/ Redeliver
    \/ RegistryNext(PipelineSockets)

SpecHealthy == Init /\ [][NextHealthy]_vars

\* send_alert is called by some coroutine for an alert not broadcast before
BroadcastCall(a) ==
    /\ lifecycle = "up"
    /\ a <= MaxBroadcasts
    /\ bcast[a].pc = "none"
    /\ \A b \in AlertIds : b < a => bcast[b].pc # "none"
    /\ send_alert_begin(a)
    /\ UNCHANGED <<score_vars, pipeline_vars>>

\* the registry under concurrent connects, disconnects and broadcasts
NextRegistry ==
    \/ Startup(TRUE, TRUE, TRUE)
    \/ \E a \in AlertIds : BroadcastCall(a)
    \/ \E a \in AlertIds, ok \in BOOLEAN : BackgroundSendJson(a, ok)
    \/ RegistryNext(Sockets)

InitRegistryOnly ==
    /\ InitRegistry
    /\ InitPipeline
    /\ ml_model = "None"
    /\ predict_proba = [t \in PipelineTxns |-> 0]
    /\ request_in = None
    /\ analysis = None

SpecRegistry == InitRegistryOnly /\ [][NextRegistry]_vars

\* the methods of kafka_producer and kafka_consumer called by concurrent
\* coroutines, every await a scheduling point, every start and send able to fail
NextServices ==
    \/ \E t \in Callers : ProducerStartCall(t)
    \/ \E t \in Callers : ProducerStopCall(t)
    \/ \E t \in Callers, op \in Publishes : PublishCall(t, op)
    \/ \E t \in Callers : ConsumerStartCall(t)
    \/ \E t \in Callers : ConsumerStopCall(t)
    \/ \E t \in Callers : LockAcquired(t)
    \/ \E t \in Callers, ok \in BOOLEAN : StartAwaitDone(t, ok)
    \/ \E t \in Callers : StopAwaitDone(t)
    \/ \E t \in Callers, sent \in BOOLEAN : SendDone(t, sent)
    \/ \E t \in Callers, ok \in BOOLEAN : ConsumerStartAwaitDone(t, ok)
    \/ \E t \in Callers : ConsumerStopDone(t)

SpecServices == InitRegistryOnly /\ [][NextServices]_vars

\* the scoring functions on every input of the domains
InitScore ==
    /\ InitRegistry
    /\ InitPipeline
    /\ ml_model = "loaded"
    /\ predict_proba = [t \in PipelineTxns |-> 0]
    /\ request_in \in [txn : AllTransactions, clf : Classifier]
    /\ analysis = None

NextScore == ScoreTransaction

SpecScore == InitScore /\ [][NextScore]_vars

\* the two paths on every input of the domains, in either order
NextPaths == DirectScore \/ ConsumeScore

SpecPaths == InitScore /\ [][NextPaths]_vars

\* the validation of TransactionCreate on every body of the domain
InitValidate ==
    /\ InitRegistry
    /\ InitPipeline
    /\ ml_model = "loaded"
    /\ predict_proba = [t \in PipelineTxns |-> 0]
    /\ request_in \in [body : Bodies]
    /\ analysis = None

NextValidate == ValidateBody

SpecValidate == InitValidate /\ [][NextValidate]_vars


(***************************************************************************)
(* Properties.                                                             *)
(***************************************************************************)
InUnit(x) == 0 <= x /\ x <= Dec(100)

\* C1: for every valid transaction and every ML probability in [0,1], the
\* rule score of _apply_rules and the combined score of analyze_transaction
\* lie in [0,1].
C1_ScoresInUnitInterval ==
    analysis # None =>
        /\ request_in.txn.amount > 0
        /\ InUnit(analysis.ml_score)
        /\ InUnit(analysis.rules_only)
        /\ InUnit(analysis.rule_score)
        /\ InUnit(analysis.risk_score)

\* a transaction whose rule increments add up to more than 1.0 has been scored
C1_Witness ==
    /\ analysis # None
    /\ SumHits(RuleHits(request_in.txn)) > Dec(100)
    /\ analysis.rules_only = Dec(100)
    /\ analysis.ml_score = Dec(100)

ExpectedStatus(fraud, risk_level) ==
    IF fraud THEN "declined"
    ELSE IF risk_level = "medium" THEN "flagged"
    ELSE "approved"

\* C2: in the direct path and in the consume loop the status of a scored
\* transaction is DECLINED if the fraud flag is true, otherwise FLAGGED if the
\* risk level is medium, otherwise APPROVED; and the fraud flag implies a
\* score >= 0.7.
C2_StatusIsFunctionOfFlagAndLevel ==
    /\ \A i \in 1..Len(db) :
          /\ db[i].via \in {"direct", "consume"}
          /\ db[i].status = ExpectedStatus(db[i].fraud_prediction, db[i].risk_level)
          /\ db[i].fraud_prediction => db[i].risk_score >= Dec(70)
    /\ \A r \in Requests :
          req[r].response.scored =>
             /\ req[r].response.status =
                   ExpectedStatus(req[r].response.fraud_prediction,
                                  req[r].response.risk_level)
             /\ req[r].response.fraud_prediction => req[r].response.risk_score >= Dec(70)

\* the consume loop has stored a high-risk transaction as DECLINED
C2_Witness ==
    \E i \in 1..Len(db) :
       /\ db[i].via = "consume"
       /\ db[i].risk_level = "high"
       /\ db[i].fraud_prediction
       /\ db[i].status = "declined"

\* C3: get_risk_level is high iff score >= 0.7, medium iff 0.3 <= score < 0.7,
\* low iff score < 0.3, and is_fraud is true iff score >= 0.7.
C3_RiskLevelThresholds ==
    analysis # None =>
        LET s == analysis.risk_score IN
        /\ (analysis.risk_level = "high") <=> (s >= 7000)
        /\ (analysis.risk_level = "medium") <=> (3000 <= s /\ s < 7000)
        /\ (analysis.risk_level = "low") <=> (s < 3000)
        /\ analysis.fraud_prediction <=> (s >= 7000)

\* a score of exactly 0.3 has been classified (as medium)
C3_Witness ==
    /\ analysis # None
    /\ analysis.risk_score = 3000
    /\ analysis.risk_level = "medium"

\* the members of a list
Range(list) == {list[i] : i \in 1..Len(list)}

\* a list without the members of a set, order kept
Without(list, S) == SelectSeq(list, LAMBDA x : x \notin S)

\* how many times alert a appears among the messages a client got
AlertCount(log, a) ==
    Cardinality({i \in 1..Len(log) : log[i] = [type |-> "fraud_alert", id |-> a]})

\* send_alert(a) returns in this step
Returning(a) == bcast[a].pc = "await_send" /\ bcast'[a].pc = "done"

\* the connections whose send_json raised during the send_alert(a) that returns
\* in this step: those collected so far and the last one if it raised too
FailedIn(a) ==
    Range(bcast[a].disconnected) \cup
        (IF received'[bcast[a].cur] = received[bcast[a].cur] THEN {bcast[a].cur} ELSE {})

C4_Return(a) ==
    (Returning(a) /\ ~bcast[a].mutated) =>
        LET N == bcast[a].snapshot
            F == FailedIn(a)
        IN /\ F \subseteq Range(N)
           /\ \A w \in Range(N) \ F : AlertCount(received'[w], a) = 1
           /\ \A w \in F : AlertCount(received'[w], a) = 0
           /\ active_connections' = Without(N, F)
           /\ Len(active_connections') = Len(N) - Cardinality(F)
           /\ \A w \in F : w \notin DOMAIN connection_metadata'

\* C4: when send_alert runs over the N registered connections with no registry
\* operation of another coroutine in between, and the connections in F raise on
\* send_json, every connection not in F is sent the alert exactly once, those
\* in F never, send_alert returns normally, and the registry then holds the N
\* connections without those of F: N - |F| of them.
C4_FanOutIsolation == [][\A a \in AlertIds : C4_Return(a)]_vars

\* a broadcast over sockets 1 and 2 has returned: socket 1 raised and was
\* evicted by the clean-up (its client never disconnected), socket 2 got the
\* alert once and is the only registered connection
C4_Witness ==
    /\ bcast[1].pc = "done"
    /\ active_connections = <<2>>
    /\ DOMAIN connection_metadata = {2}
    /\ connection_metadata[2].alerts_received = 1
    /\ AlertCount(received[2], 1) = 1
    /\ AlertCount(received[1], 1) = 0
    /\ ws_pc[1] \in {"welcoming", "open"}
    /\ ws_pc[2] \in {"welcoming", "open"}

C5_Return(a) ==
    Returning(a) =>
        \A w \in Range(bcast[a].snapshot) :
            (w \in Range(active_connections') /\ SendCanSucceed(w))
                => AlertCount(received'[w], a) >= 1

\* C5: under every interleaving with connect, disconnect and other broadcasts,
\* a connection that was registered when send_alert was called, is still
\* registered when it returns and whose client is still there has been sent the
\* alert.
C5_NoLiveSubscriberSkipped == [][\A a \in AlertIds : C5_Return(a)]_vars

\* the message the consume loop takes in this step, if it takes one
Taken == transaction_topic[offset + 1]

\* in this step process_messages takes a delivery and hands it to
\* _process_single_message
Takes == offset' = offset + 1 /\ running

\* the positions of process_messages inside _process_single_message
HandlingPcs == {"publish_result", "publish_alert", "broadcast"}

\* in this step the handling of a delivered message ends with an exception:
\* TransactionCreate rejects the data, the commit fails, or a publish finds no
\* producer and cannot start one
C6_Raises ==
    \/ /\ Takes
       /\ ~Validates(Taken.data) \/ db' = db
    \/ /\ consumer_pc \in {"publish_result", "publish_alert"}
       /\ consumer_pc' # consumer_pc
       /\ producer = "None" /\ producer' = "None"

C6_Step ==
    /\ C6_Raises =>
          /\ error_count' = error_count + 1
          /\ processed_count' = processed_count
          /\ running' = running
          /\ consumer_pc' = "wait"
          /\ consumer' = consumer
    /\ error_count' # error_count => C6_Raises

\* C6: when the handling of one inbound message raises (validation,
\* persistence, publish), process_messages catches it: error_count grows by
\* exactly 1, processed_count and running are left as they are, and the loop
\* is back at its async for, ready for the next delivery; error_count changes
\* in no other step.
C6_HandlingErrorIsCounted == [][C6_Step]_vars

\* one handling has raised and the loop is now handling a later delivery
C6_Witness ==
    /\ error_count = 1 /\ processed_count = 0
    /\ running
    /\ consumer_pc = "publish_result"

\* the records the consume path wrote for the message with this key
ConsumeRecords(table, key) ==
    {i \in 1..Len(table) : table[i].via = "consume" /\ table[i].key = key}

C7_Step ==
    /\ (Takes /\ Validates(Taken.data)) =>
          /\ Len(db') = Len(db) + 1
          /\ SubSeq(db', 1, Len(db)) = db
          /\ db'[Len(db')].key = Taken.transaction_id
          /\ db'[Len(db')].data = Taken.data
          /\ \A i \in 1..Len(db) : db[i].id # db'[Len(db')].id
          /\ Cardinality(ConsumeRecords(db', Taken.transaction_id))
                = Cardinality(ConsumeRecords(db, Taken.transaction_id)) + 1
    /\ (consumer_pc \in HandlingPcs /\ consumer_pc' \notin HandlingPcs) =>
          /\ processed_count' = processed_count + 1
          /\ consumer_pc' = "wait"
    /\ consumer_pc' # "ended"
    /\ running => running'

\* every delivery of a valid message has its own record and is counted once
C7_Counted ==
    LET consumed == {i \in 1..Len(db) : db[i].via = "consume"}
    IN Cardinality(consumed) =
          processed_count + (IF consumer_pc \in HandlingPcs THEN 1 ELSE 0)

\* C7: while the store and the transport do not fail, every delivery of a
\* valid inbound message, a repeated one included, inserts one more record
\* with a fresh id for that message (earlier records stay), its handling
\* ends with processed_count + 1, and the loop never stops: delivering the
\* same message twice gives two records and processed_count + 2.
C7_DuplicateDeliveryHandledTwice == []C7_Counted /\ [][C7_Step]_vars

\* the same message was delivered twice: two records, two handlings counted
C7_Witness ==
    /\ \E i, j \in 1..Len(db) :
          /\ i # j /\ db[i].id # db[j].id
          /\ db[i].via = "consume" /\ db[j].via = "consume"
          /\ db[i].key = db[j].key /\ db[i].data = db[j].data
    /\ redelivered = 1 /\ Len(transaction_topic) = 1
    /\ processed_count = 2 /\ error_count = 0
    /\ consumer_pc = "wait" /\ running

\* the ids of the transactions for which an alert or a processed result left
\* the service: send_alert scheduled or run, alert published, result published
SideEffectIds ==
    {a \in AlertIds : bcast[a].pc # "none"}
        \cup {alert_topic[i].transaction_id : i \in 1..Len(alert_topic)}
        \cup {processed_topic[i].transaction_id : i \in 1..Len(processed_topic)}
        \cup UNION {{received[w][i].id : i \in {j \in 1..Len(received[w]) :
                          received[w][j].type = "fraud_alert"}} : w \in Sockets}

\* every side effect is about a committed record
C8_AfterCommit == \A a \in SideEffectIds : a \in 1..Len(db) /\ db[a].id = a

\* in this step the insert of a direct request fails: it is answered 500
C8_DirectInsertFails ==
    \E r \in Requests :
        /\ req[r].pc = "new" /\ req'[r].pc = "done"
        /\ ~req'[r].stream_mode /\ req'[r].response.code = 500

\* in this step the consume loop takes a valid message and its insert fails
C8_ConsumeInsertFails == Takes /\ Validates(Taken.data) /\ db' = db

C8_NoSideEffect ==
    /\ db' = db
    /\ bcast' = bcast /\ received' = received
    /\ alert_topic' = alert_topic /\ processed_topic' = processed_topic

C8_Step ==
    /\ C8_DirectInsertFails => C8_NoSideEffect
    /\ C8_ConsumeInsertFails =>
          C8_NoSideEffect /\ consumer_pc' = "wait" /\ cur' = NoCur

\* C8: in both paths every alert (send_alert scheduled or run, alert-channel
\* publish) and every processed-result publish is about a record whose insert
\* has already committed; a step in which the insert fails publishes nothing,
\* schedules nothing and ends the handling of that transaction.
C8_NoSideEffectBeforeCommit == []C8_AfterCommit /\ [][C8_Step]_vars

\* the consume loop took a valid message that would be due an alert, its
\* insert failed, and nothing was published or broadcast
C8_Witness ==
    /\ offset = 1 /\ transaction_topic[1].data = TxnD /\ ml_model = "None"
    /\ error_count = 1 /\ db = << >>
    /\ SideEffectIds = {}
    /\ active_connections # << >>

\* the alert condition of both paths
AlertDue(rec) == rec.fraud_prediction \/ rec.risk_level = "high"

\* the alert channel holds the alert of transaction a
AlertPublished(topic, a) == \E i \in 1..Len(topic) : topic[i].transaction_id = a

C9_Step ==
    \* direct path: the insert and the scheduling are one step
    /\ (Len(db') = Len(db) + 1 /\ db'[Len(db')].via = "direct") =>
          LET rec == db'[Len(db')]
          IN (bcast'[rec.id].pc = "scheduled") <=> AlertDue(rec)
    \* consume path: the handling of the inserted record is over
    /\ (consumer_pc \in HandlingPcs /\ consumer_pc' \notin HandlingPcs) =>
          LET rec == db[cur.id]
          IN IF AlertDue(rec)
             THEN /\ AlertPublished(alert_topic', rec.id)
                  /\ bcast'[rec.id].pc = "done"
             ELSE /\ ~AlertPublished(alert_topic', rec.id)
                  /\ bcast'[rec.id].pc = "none"

C10_Step ==
    \A r \in Requests :
        (/\ req[r].pc = "new" /\ req'[r].pc = "done"
         /\ req'[r].stream_mode /\ foreign' = foreign) =>
            /\ Len(transaction_topic') <= Len(transaction_topic) + 1
            /\ (req'[r].response.code = 200) <=> (transaction_topic' # transaction_topic)
            /\ req'[r].response.code = 200 =>
                  LET message == transaction_topic'[Len(transaction_topic')]
                  IN /\ req'[r].response.status = "pending"
                     /\ req'[r].response.id = 0
                     /\ ~req'[r].response.scored
                     /\ transaction_topic' = Append(transaction_topic, message)
                     /\ message.data \in PipelineTxns
                     /\ \A i \in 1..Len(transaction_topic) :
                           transaction_topic[i].transaction_id # message.transaction_id
            /\ db' = db
            /\ processed_topic' = processed_topic /\ alert_topic' = alert_topic
            /\ UNCHANGED registry_vars
            /\ UNCHANGED <<processed_count, error_count>>

\* C10: a streaming request whose publish succeeds is answered with status
\* pending and id 0, and has appended exactly one message to the inbound
\* topic, keyed by an id no earlier message carries; whatever the outcome, the
\* request scores nothing, inserts nothing, and sends nothing to subscribers,
\* to the alert topic or to the processed topic.
C10_EnqueueOnlyPublishes == [][C10_Step]_vars

\* a streaming request was answered pending: one message is on the inbound
\* topic, not yet taken, and nothing else has happened
C10_Witness ==
    \E r \in Requests :
        /\ req[r].pc = "done" /\ req[r].stream_mode
        /\ req[r].response.code = 200 /\ req[r].response.status = "pending"
        /\ req[r].response.id = 0
        /\ Len(transaction_topic) = 1 /\ offset = 0
        /\ transaction_topic[1].transaction_id = uuid_counter
        /\ db = << >> /\ SideEffectIds = {}
        /\ active_connections # << >>

\* in this step a streaming request is answered (a message written by another
\* producer is not a request)
StreamAnswered(r) ==
    /\ req[r].pc = "new" /\ req'[r].pc = "done"
    /\ req'[r].stream_mode /\ foreign' = foreign

\* publish_transaction reported failure: the producer is there and the send
\* put nothing on the inbound topic
PublishReportedFailure ==
    producer' = "started" /\ transaction_topic' = transaction_topic

\* C11: when publish_transaction reports failure, the streaming request is
\* answered 503, not the 500 of every other failure, and nothing is persisted.
C11_PublishFailureIs503 ==
    [][\A r \in Requests :
          (StreamAnswered(r) /\ PublishReportedFailure) =>
              req'[r].response.code = 503 /\ db' = db]_vars

\* in this step create_transaction answers a direct request
DirectAnswered(r) ==
    /\ req[r].pc = "new" /\ req'[r].pc = "done"
    /\ ~req'[r].stream_mode /\ req'[r].response.code # 422

C12_Step ==
    \A r \in Requests :
        /\ DirectAnswered(r) =>
              /\ req'[r].response.code \in {200, 500}
              /\ req'[r].response.code = 500 =>
                    /\ db' = db
                    /\ bcast' = bcast
                    /\ ~req'[r].response.scored
              /\ req'[r].response.code = 200 =>
                    /\ db' = Append(db, db'[Len(db')])
                    /\ req'[r].response.id = db'[Len(db')].id
        /\ req[r].pc = "done" => req'[r] = req[r]

\* the direct records are those of the direct requests answered 200
C12_Stored ==
    Cardinality({i \in 1..Len(db) : db[i].via = "direct"})
        = Cardinality({r \in Requests : /\ req[r].pc = "done" /\ ~req[r].stream_mode
                                          /\ req[r].response.code = 200})

\* C12: a direct request whose commit fails is answered with an error (500),
\* leaves the table as it was, schedules no alert and is over: the commit is
\* attempted once and the store holds no record for the request.
C12_DirectCommitFailure == []C12_Stored /\ [][C12_Step]_vars

\* a direct request was answered 500: no record, no alert scheduled or sent
C12_Witness ==
    \E r \in Requests :
        /\ req[r].pc = "done" /\ ~req[r].stream_mode
        /\ req[r].response.code = 500
        /\ db = << >>
        /\ \A a \in AlertIds : bcast[a].pc = "none"
        /\ active_connections # << >>

\* caller t is suspended in the method op
In(t, op) == call[t].op = op /\ call[t].pc # "idle"

\* the callers whose start() is inside the locked block, awaiting the start of
\* the AIOKafkaProducer they constructed
Initializing == {t \in Callers : call[t].pc = "start_await"}

\* caller t is in KafkaProducerService.start, called directly or by a
\* publish_* or by KafkaConsumerService.start, and enters its locked block
EntersStart(t) ==
    \/ ProducerStartCall(t) /\ call'[t].pc # "lock_wait"
    \/ LockAcquired(t) /\ call[t].op # "producer.stop"

\* at most one initialization at a time, by the holder of the lock, of the
\* one producer handle that is not started yet
C13_OneInitialization ==
    /\ Cardinality(Initializing) <= 1
    /\ \A t \in Initializing :
          /\ lock.holder = t
          /\ call[t].via = made.producer_id
    /\ (producer = "created") <=> (Initializing # {})
    /\ (producer = "None") <=> (made.producer_id = 0)

C13_Step ==
    /\ made'.producers # made.producers =>
          /\ producer = "None" /\ Initializing = {}
          /\ made'.producers = made.producers + 1
    /\ \A t \in Callers :
          /\ (EntersStart(t) /\ producer # "None") =>
                /\ producer = "started"
                /\ producer' = producer
                /\ made'.producers = made.producers
                /\ made'.producer_id = made.producer_id
                /\ lock'.holder = 0
          /\ (/\ ProducerStartCall(t) \/ In(t, "producer.start")
              /\ call'[t].pc = "idle" /\ call'[t].result = "None") =>
                producer' = "started"

\* C13: under every interleaving of start, stop and publish calls on the
\* producer service (the lazy starts of publish_* and of the consumer's start
\* included), at most one caller at a time is initializing a producer and it
\* holds the lock; a producer is constructed only when there is none; a start
\* that finds a producer finds it started, constructs nothing, leaves the
\* handle as it is and releases the lock; and a start that returns normally
\* leaves a started producer.
C13_StartIdempotentAndExclusive == []C13_OneInitialization /\ [][C13_Step]_vars

\* a publish by caller 1 found no producer and is initializing one inside its
\* lazy start, while a start called by caller 2 waits for the lock
C13_Witness ==
    /\ call[1].pc = "start_await" /\ call[1].op \in Publishes
    /\ call[2].pc = "lock_wait" /\ call[2].op = "producer.start"
    /\ lock = [holder |-> 1, waiters |-> <<2>>]
    /\ made.producers = 1 /\ producer = "created"

\* the AIOKafkaConsumer objects that were started and not stopped
StartedConsumers ==
    {h \in 1..Len(made.consumers) : made.consumers[h] = "started"}

\* C14: whatever start calls were made on the consumer service, one after the
\* other or concurrently, at most one started AIOKafkaConsumer exists and it
\* is the one self.consumer refers to: none is orphaned.
C14_OneStartedConsumer ==
    /\ Cardinality(StartedConsumers) <= 1
    /\ \A h \in StartedConsumers : h = made.consumer_id

\* in this step shutdown_event releases the producer: kafka_producer.stop()
ProducerReleased == lifecycle = "up" /\ lifecycle' = "producer_stopped"

\* in this step the handling of the message in flight moves on
HandlingStep == consumer_pc \in HandlingPcs /\ consumer_pc' # consumer_pc

C15_Step ==
    /\ ProducerReleased => ~running /\ consumer_pc \notin HandlingPcs
    /\ lifecycle \in {"producer_stopped", "consumer_stopping", "down"} =>
          ~Takes /\ ~HandlingStep

\* C15: shutdown releases the producer only when the consume loop has stopped
\* taking messages and no message is being handled; once the producer is
\* released the loop takes no message and no step of a handling runs.
C15_ShutdownDrainsInOrder == [][C15_Step]_vars

\* in this step iterating the consumer raises
ConsumingRaises == consumer_pc = "wait" /\ consumer_event' = "loop_error"

\* in this step a status query is answered
StatusAnswered == streaming_status'.queries = streaming_status.queries + 1

C16_Step ==
    /\ ConsumingRaises => consumer_pc' = "ended" /\ ~running'
    /\ consumer_pc = "ended" => consumer_pc' = "ended" /\ ~running'
    /\ (StatusAnswered /\ consumer_pc = "ended") =>
          /\ ~streaming_status'.running
          /\ streaming_status'.system_status = "degraded"

\* C16: when iterating the consumer raises, process_messages ends with
\* running = False; the coroutine is over for good and running stays False
\* (nothing in the service calls start again), and a status query answered
\* from then on reports running false and system_status degraded.
C16_LoopErrorStopsForGood ==
    [](consumer_pc = "ended" => ~running) /\ [][C16_Step]_vars

\* the loop handled one message, then iterating the consumer raised while the
\* service was up; a status query made afterwards reported it
C16_Witness ==
    /\ consumer_event = "loop_error" /\ consumer_pc = "ended" /\ ~running
    /\ lifecycle = "up" /\ consumer = "started"
    /\ streaming_status.queries = 1
    /\ streaming_status.system_status = "degraded"
    /\ ~streaming_status.running
    /\ streaming_status.processed_count = 1

\* connection w is in the registry: in the list or in the metadata
Registered(w) ==
    w \in Range(active_connections) \/ w \in DOMAIN connection_metadata

\* C17: a connection whose endpoint has ended, by a client disconnect or by a
\* failed accept or a failed welcome message during connect, is in neither the
\* connection list nor the metadata.
C17_ClosedIsUnregistered ==
    \A w \in Sockets : ws_pc[w] = "closed" => ~Registered(w)

\* in this step process_messages takes a delivery or moves on in the handling
\* of one, and nothing else happens
LoopStep ==
    /\ \/ consumer_pc = "wait" /\ offset' = offset + 1
       \/ HandlingStep
    /\ lifecycle' = lifecycle /\ req' = req
    /\ streaming_status' = streaming_status
    /\ consumer' = consumer

C18_Step ==
    /\ processed_count' >= processed_count
    /\ error_count' >= error_count
    /\ <<processed_count, error_count>>' # <<processed_count, error_count>> =>
          /\ LoopStep
          /\ consumer_pc' = "wait"
          /\ (processed_count' + error_count') = (processed_count + error_count) + 1
    /\ StatusAnswered =>
          /\ streaming_status'.processed_count = processed_count
          /\ streaming_status'.error_count = error_count

ProducerStopReturns(t) ==
    /\ ProducerStopCall(t) \/ In(t, "producer.stop")
    /\ call'[t].pc = "idle"

\* in this step the stop() of the consumer service returns to caller t
ConsumerStopReturns(t) ==
    /\ ConsumerStopCall(t) \/ In(t, "consumer.stop")
    /\ call'[t].pc = "idle"

C19_Step ==
    \A t \in Callers :
        /\ ProducerStopReturns(t) =>
              /\ call'[t].result = "None"
              /\ producer' = "None"
              /\ made'.producers = made.producers
        /\ (ProducerStopCall(t) /\ producer = "None" /\ LockFree) =>
              ProducerStopReturns(t) /\ lock' = lock
        /\ ConsumerStopReturns(t) =>
              /\ call'[t].result = "None"
              /\ Len(made'.consumers) = Len(made.consumers)
              /\ made'.consumer_id = made.consumer_id
              /\ made'.reported = Append(made.reported, <<processed_count, error_count>>)
        /\ (ConsumerStopCall(t) /\ consumer = "None") =>
              ConsumerStopReturns(t) /\ consumer' = "None" /\ ~running'

\* C19: a stop of the producer service returns without error, leaves no
\* producer and constructs none, and when there is no producer it does nothing
\* else; a stop of the consumer service returns without error, constructs no
\* consumer, leaves a never-started consumer as it is with running false, and
\* has logged the processed and error counts when it returns.
C19_StopIsSafeAndReports == [][C19_Step]_vars

\* the log of the topic a publish_* writes to
TopicOf(op) ==
    IF op = "publish_transaction" THEN transaction_topic
    ELSE IF op = "publish_alert" THEN alert_topic
    ELSE processed_topic

\* the same log after the step
TopicAfter(op) ==
    IF op = "publish_transaction" THEN transaction_topic'
    ELSE IF op = "publish_alert" THEN alert_topic'
    ELSE processed_topic'

\* caller t takes a step inside a publish_*
PublishStep(t) ==
    \/ \E op \in Publishes : PublishCall(t, op)
    \/ call[t].op \in Publishes /\ call[t].pc # "idle" /\ call'[t] # call[t]

\* in this step a publish_* returns to caller t, or raises
PublishReturns(t) == PublishStep(t) /\ call'[t].pc = "idle"

\* the outcome reaches the caller: True exactly when the message was appended
\* to the topic of the method, False when the send failed, an exception when
\* the lazy start failed; a failed publish puts nothing on any topic
C20_Reported(t) ==
    PublishReturns(t) =>
        LET op == call'[t].op
            result == call'[t].result
        IN /\ result \in {"True", "False", "raised"}
           /\ (result = "True") <=> (TopicAfter(op) = Append(TopicOf(op), ServiceMessage(op)))
           /\ result # "True" =>
                 UNCHANGED <<transaction_topic, alert_topic, processed_topic>>
           /\ result = "raised" => call[t].pc = "start_await"

\* a publish changes the producer only inside its lazy start
C20_OnlyLazyStart(t) ==
    (PublishStep(t) /\ <<producer, made.producers, made.producer_id>>' #
                       <<producer, made.producers, made.producer_id>>) =>
        \/ /\ producer = "None" /\ producer' = "created"
           /\ made'.producers = made.producers + 1
           /\ call'[t].pc = "start_await"
        \/ /\ call[t].pc = "start_await"
           /\ producer' \in {"started", "None"}

C20_FailedAfterLazyStart(t) ==
    (PublishReturns(t) /\ call'[t].result # "True") =>
        /\ call'[t].result = "raised" =>
              /\ producer' = "None" /\ made'.producer_id = 0
              /\ lock'.holder = 0
        /\ call'[t].result = "False" =>
              /\ producer' = producer /\ made' = made /\ lock' = lock
              /\ (call[t].built # 0 /\ made.producer_id = call[t].built) =>
                    producer' = "started"

\* C20 as amended: every publish_* tells its caller the outcome, and a failed
\* publish changes the producer only through its lazy start: when that start
\* fails the handle is dropped and there is no producer, as before; when it
\* succeeds and the send fails, the producer it started stays.
C20_PublishReportsOutcome ==
    [][\A t \in Callers :
          C20_Reported(t) /\ C20_OnlyLazyStart(t) /\ C20_FailedAfterLazyStart(t)]_vars

\* C20 as stated: every publish_* tells its caller the outcome, and when a
\* publish fails, the producer handle is not one that this publish has put
\* there.
C20_FailedPublishChangesNothing ==
    [][\A t \in Callers :
          /\ C20_Reported(t)
          /\ (PublishReturns(t) /\ call'[t].result # "True") =>
                ~(call[t].built # 0 /\ made'.producer_id = call[t].built)]_vars

\* the only call made so far was a publish_transaction: it found no producer,
\* started one, its send failed and it returned False; the producer it started
\* is still there and the topic is empty
C20_Witness ==
    /\ made.calls = 1
    /\ call[1].pc = "idle" /\ call[1].op = "publish_transaction"
    /\ call[1].result = "False"
    /\ producer = "started" /\ made.producers = 1 /\ made.producer_id = 1
    /\ transaction_topic = << >>

(***************************************************************************)
(* C21                                                                     *)
(***************************************************************************)
FinalStatuses == {"approved", "flagged", "declined"}

\* the records the direct path and the consume path have written
PipelineRecords == {i \in 1..Len(db) : db[i].via \in {"direct", "consume"}}

\* the statuses visible anywhere: in the table and in the answers given
StatusesInUse ==
    {db[i].status : i \in 1..Len(db)} \cup {req[r].response.status : r \in Requests}

\* a stored record stays as it was inserted
C21_RecordsKept == \A i \in 1..Len(db) : Len(db') >= i /\ db'[i] = db[i]

\* the answer to a queued transaction: the only place of "pending"
C21_PendingOnlyQueued ==
    /\ \A i \in 1..Len(db) : db[i].status # "pending"
    /\ \A r \in Requests :
          req[r].response.status = "pending" =>
              /\ req[r].stream_mode
              /\ req[r].response = EnqueueResponse(TxnA)
              /\ ~req[r].response.scored

\* C21, restricted to the records of the two paths of POST /api/v1/transactions:
\* each has a final status, keeps it, and no status is "under_review"
C21_PipelineStatusFinal ==
    /\ [](\A i \in PipelineRecords : db[i].status \in FinalStatuses)
    /\ []("under_review" \notin StatusesInUse)
    /\ [][C21_RecordsKept]_vars

\* C21: every persisted record has a status in {approved, flagged, declined},
\* assigned at insert and never changed by any operation of the service;
\* "pending" appears only in the answer to a transaction that was queued and
\* is not yet scored; no operation assigns "under_review"
C21_StatusAssignedOnce ==
    /\ [](\A i \in 1..Len(db) : db[i].status \in FinalStatuses)
    /\ []C21_PendingOnlyQueued
    /\ []("under_review" \notin StatusesInUse)
    /\ [][C21_RecordsKept]_vars

(***************************************************************************)
(* C22                                                                     *)
(***************************************************************************)
\* the condition the manual-review flag is specified by
ReviewDue(risk_level, ml_score, rule_score) ==
    Abs(ml_score - rule_score) > Dec(40) \/ risk_level = "medium"

\* C22, the analysis result alone: requires_manual_review is true iff
\* |ml_score - rule_score| > 0.4 or the risk level is medium
C22_AnalysisFlag ==
    analysis # None =>
        (analysis.requires_manual_review
            <=> ReviewDue(analysis.risk_level, analysis.ml_score, analysis.rule_score))

\* C22: for every scored transaction the manual-review flag of the analysis
\* result (requires_manual_review) and the one of the persisted and returned
\* record (verification_required) are true iff |ml_score - rule_score| > 0.4
\* or the risk level is medium
C22_ManualReviewFlag ==
    analysis # None =>
        /\ analysis.requires_manual_review
              <=> ReviewDue(analysis.risk_level, analysis.ml_score, analysis.rule_score)
        /\ analysis.verification_required
              <=> ReviewDue(analysis.risk_level, analysis.ml_score, analysis.rule_score)

\* the same flag on the records of the table
C22_StoredFlag ==
    \A i \in PipelineRecords :
        db[i].verification_required
            <=> ReviewDue(db[i].risk_level, db[i].ml_score, db[i].rule_score)

(***************************************************************************)
(* C23                                                                     *)
(***************************************************************************)
\* Scenario A was the input and has been scored
ScenarioA == request_in # None /\ request_in.txn = TxnA /\ analysis # None

\* Scenario A, the rule evaluator alone: no rule fires
C23_RuleScoreZero ==
    ScenarioA => analysis.rules_only = 0 /\ analysis.rule_score = 0

\* Scenario A when the estimator answers below 0.5
C23_LowWhenMLBelowHalf ==
    ScenarioA /\ analysis.ml_score < Dec(50) =>
        analysis.risk_level = "low" /\ analysis.status = "approved"

TxnB ==
    [ amount |-> 950000, merchant_name |-> <<"S", "h", "o", "p">>,
      merchant_country |-> XX, transaction_country |-> US,
      payment_method |-> "prepaid_card", device_id |-> "id-001",
      ip_address |-> "id-001" ]

\* Scenario B was the input and has been scored
ScenarioB == request_in # None /\ request_in.txn = TxnB /\ analysis # None

\* Scenario B, the rule evaluator: medium-high amount, high-risk merchant
\* country, cross-border and prepaid rule sum to 0.8, below the cap
C24_RuleScore ==
    ScenarioB =>
        /\ analysis.rules_only = Dec(80)
        /\ analysis.rule_score = Dec(80)
        /\ apply_rules_uncapped(TxnB).risk_score = Dec(80)
        /\ Len(RuleHits(TxnB)) = 4

Ind(b) == IF b THEN 1 ELSE 0

\* a device id or IP address that was not given
Missing(v) == v = "None" \/ v = ""

\* some suspicious substring occurs in the name, whatever the case of its letters
Suspicious(name) ==
    \E k \in 1..Len(SUSPICIOUS_MERCHANTS) : Contains(lower(name), SUSPICIOUS_MERCHANTS[k])

\* the sum of the increments as the rule table states them (amounts in cents,
\* increments in units of 1/10000)
IncrementSum(t) ==
      (IF t.amount > 1000000 THEN Dec(40) ELSE IF t.amount > 500000 THEN Dec(20) ELSE 0)
    + Dec(30) * Ind(t.merchant_country \in {XX, YY})
    + Dec(20) * Ind(t.transaction_country \in {XX, YY})
    + Dec(10) * Ind(t.merchant_country # t.transaction_country)
    + Dec(30) * Ind(Suspicious(t.merchant_name))
    + Dec(20) * Ind(t.amount > 500000 /\ t.payment_method = "prepaid_card")
    + Dec(5) * Ind(Missing(t.device_id))
    + Dec(5) * Ind(Missing(t.ip_address))

\* C25: for every transaction the rule score equals min(1.0, sum of the
\* increments of the rules that fire): +0.4 if amount > 10,000, else +0.2 if
\* amount > 5,000; +0.3 merchant country high-risk; +0.2 transaction country
\* high-risk; +0.1 countries differ; +0.3 once for a suspicious substring in
\* the merchant name; +0.2 if amount > 5,000 on a prepaid card; +0.05 device
\* id missing; +0.05 IP address missing.  Missing both on an otherwise
\* zero-score transaction gives exactly 0.10.
C25_RuleScoreIsCappedSum ==
    analysis # None =>
        LET t == request_in.txn IN
        /\ analysis.rules_only = Min(Dec(100), IncrementSum(t))
        /\ analysis.rule_score = analysis.rules_only
        /\ (IncrementSum([t EXCEPT !.device_id = "id-001", !.ip_address = "id-001"]) = 0
              /\ Missing(t.device_id) /\ Missing(t.ip_address))
             => analysis.rules_only = Dec(10)

\* transactions on which the cap acts, on which it does not, and the one with
\* only device id and IP address missing have been scored
C25_Witness ==
    /\ analysis # None
    /\ request_in.txn = [TxnA EXCEPT !.device_id = "None", !.ip_address = ""]
    /\ analysis.rules_only = Dec(10)
    /\ \E t \in AllTransactions : IncrementSum(t) > Dec(100)
    /\ \E t \in AllTransactions : IncrementSum(t) = Dec(100)

(***************************************************************************)
(* C26                                                                     *)
(***************************************************************************)
\* the transaction t with another amount, all else fixed
WithAmount(t, amount) == [t EXCEPT !.amount = amount]

\* what Rule 1 (the amount rule) adds for t
AmountContribution(t) ==
    SumHits(SelectSeq(RuleHits(t),
                      LAMBDA h : h[2] \in {"High transaction amount",
                                           "Medium-high transaction amount"}))

\* amount 6,000 was the input and has been scored
Scored6000 == analysis # None /\ request_in.txn.amount = 600000

\* the amount rule contributes 0, 0.2, 0.4 at 100, 6,000, 11,000
C26_AmountBands ==
    Scored6000 =>
        LET t == request_in.txn IN
        /\ AmountContribution(WithAmount(t, 10000)) = 0
        /\ AmountContribution(t) = Dec(20)
        /\ AmountContribution(WithAmount(t, 1100000)) = Dec(40)

\* C26 as it holds: for every fixed choice of the other fields, raising the
\* amount from 100 to 6,000 to 11,000 never lowers the rule score and raises
\* it strictly as long as the higher score is below the cap of 1.0; the sum of
\* the increments before the cap is strictly increasing, the amount rule
\* contributing 0, then 0.2, then 0.4
C26_MonotoneUpToCap ==
    Scored6000 =>
        LET t == request_in.txn
            lo == apply_rules(WithAmount(t, 10000)).risk_score
            mid == analysis.rules_only
            hi == apply_rules(WithAmount(t, 1100000)).risk_score
        IN /\ lo <= mid /\ mid <= hi
           /\ mid < Dec(100) => lo < mid
           /\ hi < Dec(100) => mid < hi
           /\ IncrementSum(WithAmount(t, 10000)) < IncrementSum(t)
           /\ IncrementSum(t) < IncrementSum(WithAmount(t, 1100000))
           /\ AmountContribution(WithAmount(t, 10000)) = 0
           /\ AmountContribution(t) = Dec(20)
           /\ AmountContribution(WithAmount(t, 1100000)) = Dec(40)

\* a transaction whose score is at the cap at 6,000 already: going to 11,000
\* does not raise it
C26_Witness ==
    /\ Scored6000
    /\ analysis.rules_only = Dec(100)
    /\ apply_rules(WithAmount(request_in.txn, 1100000)).risk_score = Dec(100)
    /\ apply_rules(WithAmount(request_in.txn, 10000)).risk_score < Dec(100)

\* C26: for every fixed choice of the other fields, raising the amount from
\* 100 to 6,000 to 11,000 strictly increases the rule score, the amount rule
\* contributing 0, then 0.2, then 0.4
C26_StrictlyIncreasing ==
    Scored6000 =>
        LET t == request_in.txn IN
        /\ apply_rules(WithAmount(t, 10000)).risk_score < analysis.rules_only
        /\ analysis.rules_only < apply_rules(WithAmount(t, 1100000)).risk_score
        /\ AmountContribution(WithAmount(t, 10000)) = 0
        /\ AmountContribution(t) = Dec(20)
        /\ AmountContribution(WithAmount(t, 1100000)) = Dec(40)

(***************************************************************************)
(* C27                                                                     *)
(***************************************************************************)
\* the estimator has no trained model, or its prediction raises
Unavailable(clf) == clf.kind \in {"NoModel", "Error"}

\* the reasons that come from the estimator: the two narratives and the
\* risk-factor explanations
MLReasons ==
    { "ML model detected high fraud probability",
      "ML model detected medium fraud probability",
      "ML: Transaction amount is high", "ML: Cross-border transaction detected",
      "ML: High-risk country involved", "ML: Higher risk payment method" }

\* the estimator's answer and the scoring result when it is unavailable
C27_Degraded ==
    Unavailable(request_in.clf) =>
        LET t == request_in.txn
            ml == predict_fraud_probability(request_in.clf, t)
        IN /\ ml.probability = Dec(50)
           /\ ml.status \in {"No ML model available, using rules only",
                             "ML prediction failed"}
           /\ ~ml.has_risk_factors /\ ml.risk_factors = << >>
           /\ analysis # None =>
                /\ analysis.ml_score = Dec(50)
                /\ analysis.risk_score * 10 = analysis.rule_score * 4 + Dec(50) * 6
                /\ analysis.fraud_reasons = apply_rules(t).reasons
                /\ \A i \in 1..Len(analysis.fraud_reasons) :
                      analysis.fraud_reasons[i] \notin MLReasons

\* the scoring step of an input whose estimator is unavailable ends with a result
C27_Step ==
    (Unavailable(request_in.clf) /\ analysis = None) =>
        (analysis' # None /\ analysis'.kind = "analysis")

\* C27: when no trained model is loaded (or the prediction raises) the
\* estimator returns probability 0.5 with an explanation and no risk factors;
\* scoring completes normally with the rule reasons alone, no ML-derived
\* reason being appended
C27_DegradedScoring == []C27_Degraded /\ [][C27_Step]_vars

\* a cross-border prepaid transaction of 11,000 in a high-risk country, for
\* which a loaded model would give all four risk factors, was scored while the
\* prediction raised
C27_Witness ==
    /\ analysis # None
    /\ request_in.clf.kind = "Error"
    /\ Len(RiskFactors(request_in.txn)) = 4
    /\ analysis.ml_score = Dec(50)
    /\ analysis.fraud_reasons # << >>

\* both paths of the pipeline without a trained model: every record was
\* scored with probability 0.5 and carries the rule reasons only
C27_PipelineDegraded ==
    ml_model = "None" =>
        \A i \in PipelineRecords :
            /\ db[i].ml_score = Dec(50)
            /\ db[i].fraud_reasons = apply_rules(db[i].data).reasons

C27_DirectDegraded ==
    ml_model = "None" /\ \E i \in PipelineRecords : db[i].via = "direct"

C27_ConsumeDegraded ==
    ml_model = "None" /\ \E i \in PipelineRecords : db[i].via = "consume"

(***************************************************************************)
(* C28                                                                     *)
(***************************************************************************)
\* a body was validated and accepted
Accepted == analysis # None /\ analysis.accepted

\* what validation does guarantee: amount > 0, country codes of at most 2
\* characters, card_last_four absent or exactly 4 digits
C28_AcceptedWithinBounds ==
    Accepted =>
        LET b == request_in.body IN
        /\ b.amount > 0
        /\ Len(b.merchant_country) <= 2
        /\ Len(b.transaction_country) <= 2
        /\ \/ b.card_last_four = Absent
           \/ /\ b.card_last_four.given
              /\ Len(b.card_last_four.value) = 4
              /\ \A i \in 1..4 : b.card_last_four.value[i] \in Digits

\* the well-formed bodies are all accepted
C28_WellFormedAccepted ==
    (analysis # None
       /\ request_in.body.amount > 0
       /\ Len(request_in.body.merchant_country) = 2
       /\ Len(request_in.body.transaction_country) = 2
       /\ request_in.body.card_last_four \in {Absent, Given(<<"1", "2", "3", "4">>)})
    => analysis.accepted

\* C28: every transaction accepted by TransactionCreate has amount > 0, a
\* merchant country code and a transaction country code of exactly 2
\* characters, and a card_last_four that is absent or exactly 4 numeric
\* characters
C28_AcceptedIsWellFormed ==
    Accepted =>
        LET b == request_in.body IN
        /\ b.amount > 0
        /\ Len(b.merchant_country) = 2
        /\ Len(b.transaction_country) = 2
        /\ \/ b.card_last_four = Absent
           \/ /\ b.card_last_four.given
              /\ Len(b.card_last_four.value) = 4
              /\ \A i \in 1..4 : b.card_last_four.value[i] \in Digits

(***************************************************************************)
(* C29                                                                     *)
(***************************************************************************)
\* a payload that is missing or breaks a constraint of the schema
Malformed(data) ==
    \/ data = None
    \/ data.amount <= 0
    \/ Len(data.merchant_country) > 2
    \/ Len(data.transaction_country) > 2

\* in this step the loop takes a delivery whose payload is malformed
TakesMalformed == Takes /\ Malformed(Taken.data)

\* the handling of a malformed message: it is over within the step that takes
\* it, nothing is stored, published or broadcast, one error is counted
C29_Step ==
    TakesMalformed =>
        /\ db' = db
        /\ processed_topic' = processed_topic
        /\ alert_topic' = alert_topic
        /\ bcast' = bcast
        /\ received' = received
        /\ error_count' = error_count + 1
        /\ processed_count' = processed_count
        /\ cur' = NoCur
        /\ consumer_pc' = "wait"

\* C29: an inbound message whose payload is malformed (data missing, or
\* rejected by TransactionCreate) is rejected before any side effect: nothing
\* is persisted, no processed-result or alert message is published, no
\* broadcast occurs; the message is counted as exactly one error
C29_MalformedRejectedCleanly == [][C29_Step]_vars

\* a message without data was taken and rejected
C29_Witness ==
    /\ offset = 1
    /\ transaction_topic[1].data = None
    /\ consumer_event = "raised"
    /\ error_count = 1
    /\ processed_count = 0
    /\ db = << >>

\* a message whose data breaks the schema was taken and rejected
C29_WitnessInvalid ==
    /\ offset = 1
    /\ transaction_topic[1].data = BadTxn
    /\ consumer_event = "raised"
    /\ error_count = 1
    /\ db = << >>

(***************************************************************************)
(* C30                                                                     *)
(***************************************************************************)
\* both paths have handled the input drawn
BothHandled ==
    analysis # None /\ analysis.direct # None /\ analysis.consume # None

\* the part of a Transaction row the claim compares
Compared(rec) ==
    [ status |-> rec.status, risk_score |-> rec.risk_score,
      risk_level |-> rec.risk_level, fraud_prediction |-> rec.fraud_prediction,
      fraud_reasons |-> rec.fraud_reasons,
      verification_required |-> rec.verification_required ]

\* C30: for the same transaction and the same ML estimator output the direct
\* path and the consume path persist records with identical status, risk
\* score, risk level, fraud flag, reasons and verification-required flag, and
\* make the same alert decision with the same alert type
C30_PathsEquivalent ==
    BothHandled =>
        /\ Compared(analysis.direct.record) = Compared(analysis.consume.record)
        /\ analysis.direct.alert_due <=> analysis.consume.alert_due
        /\ analysis.direct.alert_due =>
              analysis.direct.alert_type = analysis.consume.alert_type

\* both paths have declined a transaction and alerted, and the input is one
\* for which the estimator gave risk factors
C30_Witness ==
    /\ BothHandled
    /\ analysis.direct.record.status = "declined"
    /\ analysis.consume.record.status = "declined"
    /\ analysis.direct.alert_due /\ analysis.consume.alert_due
    /\ analysis.consume.alert_type = "FRAUD_DETECTED"
    /\ request_in.clf.kind = "proba"

\* the records of the pipeline are the rows of these outcomes, with the id of
\* the store and, on the consume path, the key of the message
C30_PipelineRows ==
    \A i \in PipelineRecords :
        LET rec == db[i]
            t == rec.data
        IN [rec EXCEPT !.id = 0, !.key = 0] =
              IF rec.via = "direct" THEN DirectOutcome(PipelineClf(t), t).record
              ELSE ConsumeOutcome(PipelineClf(t), t).record

\* two records of the same transaction in the table, whichever paths wrote
\* them, agree on the compared part
C30_SameRows ==
    \A i, j \in PipelineRecords :
        db[i].data = db[j].data => Compared(db[i]) = Compared(db[j])

\* the table holds a direct and a consumed record of the same transaction
C30_BothInTable ==
    \E i, j \in PipelineRecords :
        db[i].data = db[j].data /\ db[i].via = "direct" /\ db[j].via = "consume"

(***************************************************************************)
(* C31                                                                     *)
(***************************************************************************)
\* the reasons of the rules, in the order the rules are evaluated
RuleOrder ==
    << "High transaction amount", "Medium-high transaction amount",
       "High-risk merchant country", "High-risk transaction country",
       "Cross-border transaction", "Suspicious merchant name",
       "Large amount on prepaid card", "Missing device information",
       "Missing IP address" >>

RulePos(r) == CHOOSE k \in 1..Len(RuleOrder) : RuleOrder[k] = r

\* the reasons of the rules that fire for t, by the conditions of the rule table
FiredReasons(t) ==
    (IF t.amount > 1000000 THEN {"High transaction amount"}
     ELSE IF t.amount > 500000 THEN {"Medium-high transaction amount"} ELSE {})
    \cup (IF t.merchant_country \in {XX, YY} THEN {"High-risk merchant country"} ELSE {})
    \cup (IF t.transaction_country \in {XX, YY} THEN {"High-risk transaction country"} ELSE {})
    \cup (IF t.merchant_country # t.transaction_country THEN {"Cross-border transaction"} ELSE {})
    \cup (IF Suspicious(t.merchant_name) THEN {"Suspicious merchant name"} ELSE {})
    \cup (IF t.amount > 500000 /\ t.payment_method = "prepaid_card"
          THEN {"Large amount on prepaid card"} ELSE {})
    \cup (IF Missing(t.device_id) THEN {"Missing device information"} ELSE {})
    \cup (IF Missing(t.ip_address) THEN {"Missing IP address"} ELSE {})

\* the narrative reason for an ML probability: at most one
NarrativeFor(p) ==
    IF p > Dec(70) THEN <<"ML model detected high fraud probability">>
    ELSE IF p > Dec(50) THEN <<"ML model detected medium fraud probability">>
    ELSE << >>

\* C31: in the reasons returned by analyze_transaction the rule reasons come
\* first, in rule-evaluation order, followed by at most one ML narrative (high
\* if the probability is > 0.7, else medium if > 0.5, else none), followed by
\* every ML risk-factor explanation; no ML-derived reason precedes a rule reason
C31_ReasonsOrder ==
    analysis # None =>
        LET rs == analysis.fraud_reasons
            t == request_in.txn
            n == Cardinality({i \in 1..Len(rs) : rs[i] \notin MLReasons})
            factors == IF request_in.clf.kind = "proba" THEN RiskFactors(t) ELSE << >>
        IN /\ \A i \in 1..n : \E k \in 1..Len(RuleOrder) : RuleOrder[k] = rs[i]
           /\ \A i, j \in 1..n : i < j => RulePos(rs[i]) < RulePos(rs[j])
           /\ {rs[i] : i \in 1..n} = FiredReasons(t)
           /\ \A i \in (n + 1)..Len(rs) : rs[i] \in MLReasons
           /\ SubSeq(rs, n + 1, Len(rs)) = NarrativeFor(analysis.ml_score) \o factors
           /\ \A i, j \in 1..Len(rs) :
                 (i < j /\ rs[i] \in MLReasons) => rs[j] \in MLReasons

\* a transaction with several rule reasons was scored with probability 0.71
\* and several risk factors
C31_Witness ==
    /\ analysis # None
    /\ analysis.ml_score = Dec(71)
    /\ Cardinality(FiredReasons(request_in.txn)) >= 3
    /\ Len(RiskFactors(request_in.txn)) >= 3
    /\ Len(analysis.fraud_reasons) >= 7

(***************************************************************************)
(* C32                                                                     *)
(***************************************************************************)
\* the number of fraud_alert messages the client of socket w has got
AlertsDelivered(w) ==
    Cardinality({i \in 1..Len(received[w]) : received[w][i].type = "fraud_alert"})

\* C32: in every reachable state get_connection_stats is accurate: the
\* reported active_connections equals the number of detail entries (the list
\* and the metadata hold exactly the same connections, without duplicates),
\* and each connection's alerts_received equals the number of fraud_alert
\* broadcasts delivered to it since it connected
C32_StatsAccurate ==
    LET stats == get_connection_stats IN
    /\ stats.active_connections = Cardinality(DOMAIN stats.connection_details)
    /\ {active_connections[i] : i \in 1..Len(active_connections)}
          = DOMAIN connection_metadata
    /\ \A i, j \in 1..Len(active_connections) :
          active_connections[i] = active_connections[j] => i = j
    /\ \A w \in DOMAIN stats.connection_details :
          stats.connection_details[w].alerts_received = AlertsDelivered(w)

\* one connection has been sent an alert and is in the stats with count 1
\* while another one has left the registry
C32_Witness ==
    /\ \E w \in DOMAIN connection_metadata :
          get_connection_stats.connection_details[w].alerts_received = 1
    /\ \E v \in Sockets : ws_pc[v] = "closed" /\ v \notin DOMAIN connection_metadata
                          /\ received[v] # << >>

(***************************************************************************)
(* C33                                                                     *)
(***************************************************************************)
\* the outcomes of the paths that have handled the input drawn
OutcomesKnown ==
    IF analysis = None THEN {}
    ELSE {o \in {analysis.direct, analysis.consume} : o # None}

\* C33: the fraud flag and the risk level high use the same threshold, so the
\* fraud flag is true iff the risk level is high; hence an alert is decided
\* exactly for declined transactions, every alert of either path has
\* alert_type FRAUD_DETECTED and the alert type HIGH_RISK is never produced
C33_AlertOnlyFraudDetected ==
    \A o \in OutcomesKnown :
        /\ o.record.fraud_prediction <=> o.record.risk_level = "high"
        /\ o.alert_due <=> o.record.status = "declined"
        /\ o.alert_due => o.alert_type = "FRAUD_DETECTED"
        /\ o.alert_due => o.alert_type # "HIGH_RISK"

\* both paths alerted for a transaction whose combined score is exactly 0.7
C33_Witness ==
    /\ BothHandled
    /\ analysis.direct.record.risk_score = Dec(70)
    /\ analysis.direct.alert_due /\ analysis.consume.alert_due
    /\ analysis.direct.alert_type = "FRAUD_DETECTED"
    /\ analysis.consume.alert_type = "FRAUD_DETECTED"

\* the same in the pipeline: every alert that left the service is of type
\* FRAUD_DETECTED and is about a declined record
C33_PipelineAlerts ==
    /\ \A i \in 1..Len(alert_topic) :
          /\ alert_topic[i].alert_type = "FRAUD_DETECTED"
          /\ db[alert_topic[i].transaction_id].status = "declined"
    /\ \A a \in AlertIds :
          bcast[a].pc # "none" => db[a].status = "declined"

(***************************************************************************)
(* C34                                                                     *)
(***************************************************************************)
\* the input was scored without an ML model
ScoredWithoutModel == analysis # None /\ request_in.clf.kind = "NoModel"

GoesToSend(t) == call[t].pc # "send_await" /\ call'[t].pc = "send_await"

\* in this step the send of caller t puts its message on a topic
MessageSent(t) ==
    /\ call[t].pc = "send_await" /\ call'[t].pc = "idle"
    /\ call'[t].result = "True"

C35_Step ==
    \A t \in Callers :
        /\ GoesToSend(t) => producer' = "started"
        /\ MessageSent(t) => producer = "started"

\* C35: in every interleaving of the producer's start with publish_* calls and
\* the status query, a message is sent only through a producer whose start-up
\* has completed, and the producer is reported connected only then: the handle
\* is never observable by a publish or by the status while the start-up is in
\* progress or has failed
C35_HandleOnlyAfterStart ==
    /\ [](kafka_producer_status = "connected" => producer = "started")
    /\ [][C35_Step]_vars

\* the status part alone
C35_ConnectedOnlyStarted ==
    kafka_producer_status = "connected" => producer = "started"

\* a publish alone never meets an unfinished start-up
C35_PublishAfterStart == [][C35_Step]_vars

(***************************************************************************)
(* C36                                                                     *)
(***************************************************************************)
\* shutdown_event has stopped the producer
ProducerStoppedByShutdown ==
    lifecycle \in {"producer_stopped", "consumer_stopping", "down"}

C36_Step ==
    ProducerStoppedByShutdown /\ producer = "None" => producer' = "None"

\* C36: once the producer has been stopped during shutdown its handle stays
\* None until start is called explicitly: no publish by a handling in flight
\* or by a late request, between the producer's stop and the consumer's or
\* after shutdown, creates and starts the producer again
C36_StoppedProducerStaysStopped == [][C36_Step]_vars

(***************************************************************************)
(* C37                                                                     *)
(***************************************************************************)
\* the records the consume path has persisted
PersistedByConsume == {i \in 1..Len(db) : db[i].via = "consume"}

\* no handling is in flight
Quiescent == consumer_pc \notin HandlingPcs

\* C37: a message counted as an error leaves no persisted record: in every
\* quiescent state the number of records persisted by the consume path equals
\* processed_count, even when a failure occurs after the insert committed
C37_ErrorLeavesNoRecord ==
    Quiescent => Cardinality(PersistedByConsume) = processed_count

\* the counters never run ahead of the table: every message counted as
\* processed has its record
C37_ProcessedHaveRecords ==
    Quiescent => Cardinality(PersistedByConsume) >= processed_count

(***************************************************************************)
(* C38                                                                     *)
(***************************************************************************)
DecimalDigits == <<"0", "1", "2", "3", "4", "5", "6", "7", "8", "9">>

\* str(db_transaction.id): the decimal text of a primary key
RECURSIVE str(_)
str(n) ==
    IF n < 10 THEN <<DecimalDigits[n + 1]>>
    ELSE str(n \div 10) \o <<DecimalDigits[(n % 10) + 1]>>

\* str(uuid.uuid4()) for the n-th value drawn: 36 characters, five groups of
\* hexadecimal digits joined by hyphens, the version digit 4 in the third
UuidText(n) ==
    <<"0", "0", "0", "0", "0", "0">> \o str(n \div 10) \o str(n % 10)
        \o <<"-", "0", "0", "0", "0", "-", "4", "0", "0", "0", "-", "8", "0", "0", "0", "-">>
        \o <<"0", "0", "0", "0", "0", "0", "0", "0", "0", "0", "0", "0">>

\* the processed-result messages of records the consume path wrote for a
\* message that Enqueue published (the transaction_id of such a message is a
\* uuid4 value; the messages of other producers carry other keys)
ResultsOfEnqueued ==
    {i \in 1..Len(processed_topic) :
        LET id == processed_topic[i].transaction_id
        IN /\ id \in 1..Len(db)
           /\ db[id].via = "consume"
           /\ db[id].key \in 1..uuid_counter}

\* C38: for every transaction accepted by Enqueue, the processed-result
\* message published for it carries the same transaction_id (the correlation
\* id) as its inbound message
C38_ResultCarriesCorrelationId ==
    \A i \in ResultsOfEnqueued :
        str(processed_topic[i].transaction_id)
            = UuidText(db[processed_topic[i].transaction_id].key)

\* the processed result carries the primary key of the record instead
C38_ResultCarriesRecordId ==
    \A i \in ResultsOfEnqueued :
        /\ str(processed_topic[i].transaction_id)
              = str(db[processed_topic[i].transaction_id].id)
        /\ Len(UuidText(db[processed_topic[i].transaction_id].key)) = 36

(***************************************************************************)
(* C39                                                                     *)
(***************************************************************************)
\* C39: for every subscriber the welcome message (type connection) is the
\* first server message it receives: no fraud_alert of a concurrent broadcast
\* is delivered to it before its welcome
C39_WelcomeFirst ==
    \A w \in Sockets :
        received[w] # << >> => received[w][1].type = "connection"

\* a subscriber gets at most one welcome, and a subscriber whose connect has
\* returned has got it
C39_WelcomeOnceWhenOpen ==
    \A w \in Sockets :
        /\ Cardinality({i \in 1..Len(received[w]) : received[w][i].type = "connection"}) <= 1
        /\ ws_pc[w] = "open" =>
              \E i \in 1..Len(received[w]) : received[w][i].type = "connection"

(***************************************************************************)
(* C40                                                                     *)
(***************************************************************************)
\* the number of messages the consume loop has taken from its iterator: every
\* take advances the position by one and every redelivery sets it back by one
MessagesTaken == offset + redelivered

\* C40: every message the consume loop takes is counted exactly once, as
\* processed or as an error: in every state between two messages
\* processed_count + error_count equals the number of messages taken so far,
\* including a message taken just after stop set running to false
C40_EveryTakeCounted ==
    Quiescent => processed_count + error_count = MessagesTaken

\* while running is true every message taken is counted exactly once
C40_Step ==
    (Takes /\ consumer_pc' \notin HandlingPcs) =>
        processed_count' + error_count' = processed_count + error_count + 1

C40_CountedWhileRunning == [][C40_Step]_vars

=============================================================================
